---- MODULE Spec2Model ----
(***************************************************************************)
(* A model of cocoutils: the mask -> COCO converter (convert/converter.py),*)
(* the COCO -> mask reconstructor (reconstruct/core.py), the polygon       *)
(* rasterizer (utils/geometry.py) and the JSON writer (utils/io.py).       *)
(*                                                                         *)
(* Four specifications share the module:                                   *)
(*   Spec      one from_masks run of a freshly constructed CocoConverter   *)
(*   SpecMask  _create_mask_from_annotations for one image, one annotation *)
(*             of the array per step                                       *)
(*   SpecRecon from_coco: the sequential loop and the worker pool          *)
(*   SpecSave  save_coco, step by step, with write failures and crashes    *)
(***************************************************************************)
EXTENDS Integers, Sequences, FiniteSets, TLC

VARIABLES
  \* ---- CocoConverter.from_masks
  pc,             \* position in from_masks
  per_file,       \* the per_file argument
  n_files,        \* len(tiff_files)
  tiff_files,     \* the mask files of input_dir read so far, in sorted order
  idx,            \* 1-based position of the loop over tiff_files
  coco_data,      \* self.coco_data
  annotation_id,  \* the local annotation_id of _process_single_file
  written,        \* output path -> dataset saved there (NoFile when none)
  log,            \* the "Error processing ..." lines printed, as file indices
  reported,       \* the N of every "Processed N images ..." line printed
  \* ---- CocoReconstructor._create_mask_from_annotations
  mpc,            \* position in _create_mask_from_annotations
  m_anns,         \* coco_data["annotations"]
  m_image,        \* the image_id argument
  m_k,            \* 1-based position of the loop over the image's annotations
  mask,           \* the label mask under construction
  full_mask,      \* the last result of create_segmentation_mask (NoMask: None)
  \* ---- CocoReconstructor.from_coco
  rpc,            \* position in from_coco
  r_images,       \* coco_data["images"]
  r_anns,         \* coco_data["annotations"]
  workers,        \* the workers argument
  num_workers,    \* max_workers of the pool
  r_i,            \* 1-based position of the sequential loop
  task,           \* pool mode: state of the future of every image
  out_files,      \* file_name -> mask written there (NoFile when none)
  processed,      \* image indices whose _process_single_image returned
  \* ---- save_coco
  spc,            \* position in save_coco
  s_doc,          \* the JSON text of obj, as a sequence of chunks
  s_prev,         \* what the destination held when save_coco was called
  fs,             \* the file system: path -> content (NoFile when absent)
  s_path,         \* the path the file object of line 70 writes to
  \* ---- create_segmentation_mask and the caller of core.py:65-70
  gpc,            \* position: before the call, after it, after lines 66-70
  g_seg,          \* the segmentation argument
  g_types,        \* the segmentation_types argument (None, or Some(list))
  g_result,       \* what create_segmentation_mask returned
  g_category,     \* the caller's category_id
  g_canvas,       \* the caller's mask
  g_before,       \* the caller's mask when create_segmentation_mask was called
  \* ---- determine_polygon_orientation and reverse_orientation
  opc,            \* position in the sequence of calls
  o_polygon,      \* a ring, as a flat coordinate list
  o_polygons,     \* a list of rings
  o_orientation,  \* determine_polygon_orientation of o_polygon, of its
                  \* reversal and of its double reversal, as computed so far
  o_reversed,     \* Some(reverse_orientation of the argument), once computed
  o_twice,        \* Some(reverse_orientation of o_reversed), once computed
  \* ---- CocoMerger.merge_files
  jpc,            \* position in merge_files
  j_coco1,        \* the dataset of file1_path
  j_coco2,        \* the dataset of file2_path
  j_merged,       \* merged_coco
  j_img_id_map,   \* img_id_map
  j_ann_id_map,   \* ann_id_map
  j_k,            \* 1-based position of the loop being run
  j_out,          \* the dataset saved at output_path (NoFile when none)
  \* ---- CocoConverter._process_image, pixel by pixel
  xpc,            \* position in _process_image
  x_img,          \* img: pixel -> value
  x_class_ids,    \* class_ids
  x_ci,           \* 1-based position of the loop over class_ids
  x_objects,      \* the objects of labeled_mask, in label order
  x_oi,           \* obj_idx
  x_annotation_id,  \* annotation_id
  x_annotations,  \* coco_annotations
  x_sub_masks,    \* the sub_mask each annotation of coco_annotations came from
  \* ---- CocoSplitter.split_file
  kpc,            \* position in split_file
  k_coco,         \* coco_data, the dataset of input_path
  k_i,            \* 1-based position of the loop over coco_data["images"]
  k_saved,        \* the individual_coco of every save_coco call, in call order
  k_created,      \* created_files
  k_fs,           \* output_dir: file name -> dataset saved there (NoFile: none)
  \* ---- CategoryManager.__init__
  cpc,            \* position in __init__
  c_file,         \* the filepath argument: None, a missing file, a readable file
  c_categories,   \* the list in the file, self.categories once loaded
  c_i,            \* 1-based position of the loop over self.categories
  c_ids,          \* ids
  c_names,        \* names
  c_id_to_name,   \* self.id_to_name
  c_name_to_id,   \* self.name_to_id
  \* ---- CocoHealthChecker
  hpc,            \* position: before __init__, before and after run_all_checks
  h_coco,         \* the dataset of coco_path, self.coco_data once loaded
  h_results,      \* what run_all_checks returned
  \* ---- bbox_from_polygons
  bpc,            \* position: before the call, after it
  b_polygons,     \* the polygons argument
  b_bbox,         \* Some(the list returned), once returned
  \* ---- a CocoConverter whose from_masks is called more than once
  calls,          \* the number of from_masks calls made on the instance
  \* ---- a mask converted by CocoConverter and rebuilt by CocoReconstructor
  tpc,            \* position: before the conversion, after it, after rebuilding
  t_img,          \* the mask image
  t_annotations,  \* the annotations _create_annotations returned
  t_mask          \* the mask _create_mask_from_annotations returned

convVars  == <<pc, per_file, n_files, tiff_files, idx, coco_data, annotation_id,
               written, log, reported>>
maskVars  == <<mpc, m_anns, m_image, m_k, mask, full_mask>>
reconVars == <<rpc, r_images, r_anns, workers, num_workers, r_i, task,
               out_files, processed>>
saveVars  == <<spc, s_doc, s_prev, fs, s_path>>
rasterVars == <<gpc, g_seg, g_types, g_result, g_category, g_canvas, g_before>>
ringVars  == <<opc, o_polygon, o_polygons, o_orientation, o_reversed, o_twice>>
mergeVars == <<jpc, j_coco1, j_coco2, j_merged, j_img_id_map, j_ann_id_map, j_k, j_out>>
extractVars == <<xpc, x_img, x_class_ids, x_ci, x_objects, x_oi, x_annotation_id,
                 x_annotations, x_sub_masks>>
splitVars == <<kpc, k_coco, k_i, k_saved, k_created, k_fs>>
catVars   == <<cpc, c_file, c_categories, c_i, c_ids, c_names, c_id_to_name,
               c_name_to_id>>
healthVars == <<hpc, h_coco, h_results>>
bboxVars  == <<bpc, b_polygons, b_bbox>>
reuseVars == <<calls>>
tripVars  == <<tpc, t_img, t_annotations, t_mask>>
vars      == <<convVars, maskVars, reconVars, saveVars, rasterVars, ringVars,
               mergeVars, extractVars, splitVars, catVars, healthVars,
               bboxVars, reuseVars, tripVars>>

\* Python's None and an absent file are the empty tuple; where a value may
\* itself be an empty list it is wrapped: Some(v) is <<v>>.
None     == <<>>
NoFile   == <<>>
NoMask   == <<>>
Some(v)  == <<v>>

Max(a, b) == IF a > b THEN a ELSE b
Min(a, b) == IF a < b THEN a ELSE b

SeqsUpTo(S, n) == UNION {[1..k -> S] : k \in 0..n}

(***************************************************************************)
(*                       CocoConverter (converter.py)                      *)
(***************************************************************************)

\* ---- bounds of the converter's inputs
MaxFiles == 2      \* mask files in input_dir
MaxComps == 2      \* connected components in one mask

\* converter.py:155  "if np.sum(sub_mask) < 10"
MinObjectPixels == 10

\* The category table loaded by CategoryManager: the keys of id_to_name.
CategoryIds == {1, 2}

\* What scipy/skimage hand to _process_image for one connected component:
\* its pixel value, its pixel count and whether find_contours/shapely yield
\* at least one valid polygon.  Pixel value 3 is in no category table.
ComponentKinds ==
  { [class_id |-> 1, pixels |-> MinObjectPixels,     valid |-> TRUE],
    [class_id |-> 1, pixels |-> MinObjectPixels - 1, valid |-> TRUE],
    [class_id |-> 2, pixels |-> MinObjectPixels,     valid |-> TRUE],
    [class_id |-> 2, pixels |-> MinObjectPixels,     valid |-> FALSE],
    [class_id |-> 3, pixels |-> MinObjectPixels,     valid |-> TRUE] }

\* The pixel values of the components of the masks.
PixelValues == {c.class_id : c \in ComponentKinds}

\* np.unique returns the pixel values in ascending order, so the components
\* of a mask are visited by ascending class_id.
ComponentLists ==
  { s \in SeqsUpTo(ComponentKinds, MaxComps) :
      \A a, b \in DOMAIN s : a < b => s[a].class_id <= s[b].class_id }

\* A mask file of input_dir: load_tiff raises when it is unreadable, and
\* "height, width = img.shape" raises when the array is not 2-D.
MaskFiles ==
  { [readable |-> FALSE, ndim |-> 2, comps |-> <<>>],
    [readable |-> TRUE,  ndim |-> 3, comps |-> <<>>] }
  \cup { [readable |-> TRUE, ndim |-> 2, comps |-> c] : c \in ComponentLists }

InitializeCocoStructure ==
  [images |-> <<>>, annotations |-> <<>>, categories |-> CategoryIds]

\* _create_sub_mask_annotation: None when no contour gives a valid polygon.
CreateSubMaskAnnotation(comp, image_id, category_id, ann_id) ==
  IF ~comp.valid THEN None
  ELSE [id |-> ann_id, image_id |-> image_id, category_id |-> category_id]

\* The two nested loops of _process_image over the components from position k.
RECURSIVE ExtractFrom(_, _, _, _)
ExtractFrom(comps, k, image_id, ann_id) ==
  IF k > Len(comps) THEN <<>>
  ELSE LET c == comps[k] IN
    IF c.class_id \notin CategoryIds
      THEN ExtractFrom(comps, k + 1, image_id, ann_id)
    ELSE IF c.pixels < MinObjectPixels
      THEN ExtractFrom(comps, k + 1, image_id, ann_id)
    ELSE LET annotation ==
               CreateSubMaskAnnotation(c, image_id, c.class_id, ann_id) IN
      IF annotation = None
        THEN ExtractFrom(comps, k + 1, image_id, ann_id)
        ELSE <<annotation>> \o ExtractFrom(comps, k + 1, image_id, ann_id + 1)

\* A faulty extraction loop: the id advances for every component visited,
\* also for those that emit nothing.
RECURSIVE ExtractFromLeaky(_, _, _, _)
ExtractFromLeaky(comps, k, image_id, ann_id) ==
  IF k > Len(comps) THEN <<>>
  ELSE LET c == comps[k] IN
    IF c.class_id \notin CategoryIds \/ c.pixels < MinObjectPixels \/ ~c.valid
      THEN ExtractFromLeaky(comps, k + 1, image_id, ann_id + 1)
      ELSE <<[id |-> ann_id, image_id |-> image_id, category_id |-> c.class_id]>>
             \o ExtractFromLeaky(comps, k + 1, image_id, ann_id + 1)

ProcessImageLeaky(img, image_id, tiff_file, start_annotation_id) ==
  [image_info  |-> [id |-> image_id, file_name |-> tiff_file],
   annotations |-> ExtractFromLeaky(img.comps, 1, image_id, start_annotation_id)]

\* A faulty extraction loop: pixel values outside the category table are
\* not skipped.
RECURSIVE ExtractFromAll(_, _, _, _)
ExtractFromAll(comps, k, image_id, ann_id) ==
  IF k > Len(comps) THEN <<>>
  ELSE LET c == comps[k] IN
    IF c.pixels < MinObjectPixels \/ ~c.valid
      THEN ExtractFromAll(comps, k + 1, image_id, ann_id)
      ELSE <<[id |-> ann_id, image_id |-> image_id, category_id |-> c.class_id]>>
             \o ExtractFromAll(comps, k + 1, image_id, ann_id + 1)

ProcessImageAll(img, image_id, tiff_file, start_annotation_id) ==
  [image_info  |-> [id |-> image_id, file_name |-> tiff_file],
   annotations |-> ExtractFromAll(img.comps, 1, image_id, start_annotation_id)]

\* _process_image: the image record and the annotations of one mask.
ProcessImage(img, image_id, tiff_file, start_annotation_id) ==
  [image_info  |-> [id |-> image_id, file_name |-> tiff_file],
   annotations |-> ExtractFrom(img.comps, 1, image_id, start_annotation_id)]

\* A faulty extraction: a pixel value outside the category table raises
\* KeyError.
RaisesOnUnknown(f) ==
  \/ ~f.readable \/ f.ndim # 2
  \/ \E k \in DOMAIN f.comps : f.comps[k].class_id \notin CategoryIds

\* load_tiff or _process_image raises for this file.
Raises(f) == ~f.readable \/ f.ndim # 2

\* The paths from_masks saves to: 0 is output_file itself, k >= 1 is
\* "{stem}_{stem of the k-th mask file}.json" (the mask files of a directory
\* are taken to have distinct stems).
OutPaths == 0..MaxFiles

ConvInit ==
  /\ pc = "from_masks"
  /\ per_file \in BOOLEAN
  /\ n_files \in 0..MaxFiles
  /\ tiff_files = <<>>
  /\ idx = 1
  /\ coco_data = InitializeCocoStructure
  /\ annotation_id = 1
  /\ written = [p \in OutPaths |-> NoFile]
  /\ log = <<>>
  /\ reported = <<>>

\* from_masks, lines 39-49: nothing to do, or enter one of the two loops.
FromMasks ==
  /\ pc = "from_masks"
  /\ pc' = IF n_files = 0 THEN "done"
           ELSE IF per_file THEN "per_file" ELSE "single_file"
  /\ annotation_id' = 1
  /\ idx' = 1
  /\ UNCHANGED <<per_file, n_files, tiff_files, coco_data, written, log, reported>>
  /\ UNCHANGED <<maskVars, reconVars, saveVars, rasterVars, ringVars,
                 mergeVars, extractVars, splitVars, catVars, healthVars,
                 bboxVars, reuseVars, tripVars>>

\* A faulty iteration: no try/except, the first exception ends the run
\* before anything is saved.
SingleFileStepAbort ==
  /\ pc = "single_file"
  /\ idx <= n_files
  /\ \E f \in MaskFiles :
       /\ tiff_files' = Append(tiff_files, f)
       /\ IF Raises(f)
            THEN /\ pc' = "done"
                 /\ UNCHANGED <<coco_data, annotation_id>>
            ELSE LET r == ProcessImage(f, idx, idx, annotation_id) IN
                 /\ coco_data' =
                      [coco_data EXCEPT
                         !.images = Append(@, r.image_info),
                         !.annotations = @ \o r.annotations]
                 /\ annotation_id' = annotation_id + Len(r.annotations)
                 /\ UNCHANGED pc
  /\ idx' = idx + 1
  /\ UNCHANGED <<per_file, n_files, written, log, reported>>
  /\ UNCHANGED <<maskVars, reconVars, saveVars, rasterVars, ringVars,
                 mergeVars, extractVars, splitVars, catVars, healthVars,
                 bboxVars, reuseVars, tripVars>>

\* One iteration of the loop of _process_single_file, lines 63-74.
SingleFileStep ==
  /\ pc = "single_file"
  /\ idx <= n_files
  /\ \E f \in MaskFiles :
       /\ tiff_files' = Append(tiff_files, f)
       /\ IF Raises(f)
            THEN /\ log' = Append(log, idx)
                 /\ UNCHANGED <<coco_data, annotation_id>>
            ELSE LET r == ProcessImage(f, idx, idx, annotation_id) IN
                 /\ coco_data' =
                      [coco_data EXCEPT
                         !.images = Append(@, r.image_info),
                         !.annotations = @ \o r.annotations]
                 /\ annotation_id' = annotation_id + Len(r.annotations)
                 /\ UNCHANGED log
  /\ idx' = idx + 1
  /\ UNCHANGED <<pc, per_file, n_files, written, reported>>
  /\ UNCHANGED <<maskVars, reconVars, saveVars, rasterVars, ringVars,
                 mergeVars, extractVars, splitVars, catVars, healthVars,
                 bboxVars, reuseVars, tripVars>>

\* The end of _process_single_file, lines 75-77 (the output directory is
\* writable: save_coco returns).
SingleFileSave ==
  /\ pc = "single_file"
  /\ idx > n_files
  /\ written' = [written EXCEPT ![0] = coco_data]
  /\ reported' = Append(reported, Len(tiff_files))
  /\ pc' = "done"
  /\ UNCHANGED <<per_file, n_files, tiff_files, idx, coco_data, annotation_id, log>>
  /\ UNCHANGED <<maskVars, reconVars, saveVars, rasterVars, ringVars,
                 mergeVars, extractVars, splitVars, catVars, healthVars,
                 bboxVars, reuseVars, tripVars>>

\* A faulty iteration: line 91 is missing, so self.coco_data keeps what the
\* earlier images left in it and the ids run on.
PerFileStepShared ==
  /\ pc = "per_file"
  /\ idx <= n_files
  /\ \E f \in MaskFiles :
       /\ tiff_files' = Append(tiff_files, f)
       /\ IF Raises(f)
            THEN /\ log' = Append(log, idx)
                 /\ UNCHANGED <<coco_data, written>>
            ELSE LET r == ProcessImage(f, 1, idx, Len(coco_data.annotations) + 1)
                     d == [coco_data EXCEPT
                             !.images = Append(@, r.image_info),
                             !.annotations = @ \o r.annotations] IN
                 /\ coco_data' = d
                 /\ written' = [written EXCEPT ![idx] = d]
                 /\ UNCHANGED log
  /\ idx' = idx + 1
  /\ UNCHANGED <<pc, per_file, n_files, annotation_id, reported>>
  /\ UNCHANGED <<maskVars, reconVars, saveVars, rasterVars, ringVars,
                 mergeVars, extractVars, splitVars, catVars, healthVars,
                 bboxVars, reuseVars, tripVars>>

\* One iteration of the loop of _process_per_file, lines 87-105.
PerFileStep ==
  /\ pc = "per_file"
  /\ idx <= n_files
  /\ \E f \in MaskFiles :
       /\ tiff_files' = Append(tiff_files, f)
       /\ IF ~f.readable
            THEN /\ log' = Append(log, idx)
                 /\ UNCHANGED <<coco_data, written>>
          ELSE IF Raises(f)
            THEN \* line 91 has run when line 92 raises
                 /\ log' = Append(log, idx)
                 /\ coco_data' = InitializeCocoStructure
                 /\ UNCHANGED written
            ELSE LET r == ProcessImage(f, 1, idx, 1)
                     d == [InitializeCocoStructure EXCEPT
                             !.images = Append(@, r.image_info),
                             !.annotations = @ \o r.annotations] IN
                 /\ coco_data' = d
                 /\ written' = [written EXCEPT ![idx] = d]
                 /\ UNCHANGED log
  /\ idx' = idx + 1
  /\ UNCHANGED <<pc, per_file, n_files, annotation_id, reported>>
  /\ UNCHANGED <<maskVars, reconVars, saveVars, rasterVars, ringVars,
                 mergeVars, extractVars, splitVars, catVars, healthVars,
                 bboxVars, reuseVars, tripVars>>

\* from_masks, line 47, after _process_per_file has returned.
PerFileEnd ==
  /\ pc = "per_file"
  /\ idx > n_files
  /\ reported' = Append(reported, Len(tiff_files))
  /\ pc' = "done"
  /\ UNCHANGED <<per_file, n_files, tiff_files, idx, coco_data, annotation_id,
                 written, log>>
  /\ UNCHANGED <<maskVars, reconVars, saveVars, rasterVars, ringVars,
                 mergeVars, extractVars, splitVars, catVars, healthVars,
                 bboxVars, reuseVars, tripVars>>

ConvIdle ==
  /\ pc = "idle" /\ per_file = FALSE /\ n_files = 0 /\ tiff_files = <<>>
  /\ idx = 1 /\ coco_data = InitializeCocoStructure /\ annotation_id = 1
  /\ written = [p \in OutPaths |-> NoFile] /\ log = <<>> /\ reported = <<>>


(***************************************************************************)
(*              Rings and their rasterization (geometry.py)                *)
(***************************************************************************)

\* ---- bounds: the image size used for rasterization
GridW == 3
GridH == 3

\* Pixel <<x, y>> is column x of row y.
Pixels(w, h) == (0..(w - 1)) \X (0..(h - 1))

\* A ring is a flat coordinate list <<x1, y1, x2, y2, ...>>.
NPoints(polygon) == Len(polygon) \div 2
PX(polygon, i) == polygon[2 * i - 1]
PY(polygon, i) == polygon[2 * i]
NextPoint(polygon, i) == IF i = NPoints(polygon) THEN 1 ELSE i + 1

\* The shoelace sum of lines 25-27, over the points i..n.
RECURSIVE Shoelace(_, _)
Shoelace(polygon, i) ==
  IF i > NPoints(polygon) THEN 0
  ELSE PX(polygon, i) * PY(polygon, NextPoint(polygon, i))
         - PY(polygon, i) * PX(polygon, NextPoint(polygon, i))
         + Shoelace(polygon, i + 1)

\* A faulty line 35: "<=" for "<".
DeterminePolygonOrientationLeq(polygon) ==
  IF NPoints(polygon) < 3 THEN 1
  ELSE IF Shoelace(polygon, 1) <= 0 THEN 1 ELSE 0

\* determine_polygon_orientation: 1 = positive area, 0 = hole.
DeterminePolygonOrientation(polygon) ==
  IF NPoints(polygon) < 3 THEN 1
  ELSE IF Shoelace(polygon, 1) < 0 THEN 1 ELSE 0

\* The rasterizer of pycocotools (frPyObjects + decode) for one ring: a
\* pixel is filled when its centre lies inside the ring (even-odd rule).
\* Coordinates are doubled, so a centre (2x+1, 2y+1) never lies on a vertex.
EdgeCrosses(polygon, i, x, y) ==
  LET ax == 2 * PX(polygon, i)
      ay == 2 * PY(polygon, i)
      bx == 2 * PX(polygon, NextPoint(polygon, i))
      by == 2 * PY(polygon, NextPoint(polygon, i))
      cx == 2 * x + 1
      cy == 2 * y + 1
  IN /\ (ay > cy) # (by > cy)
     /\ IF by > ay
          THEN (cx - ax) * (by - ay) < (cy - ay) * (bx - ax)
          ELSE (cx - ax) * (by - ay) > (cy - ay) * (bx - ax)

RingCovers(polygon, x, y) ==
  /\ NPoints(polygon) >= 3
  /\ Cardinality({i \in 1..NPoints(polygon) : EdgeCrosses(polygon, i, x, y)}) % 2 = 1

\* mask_utils.decode(mask_utils.merge(frPyObjects(segments, h, w))): the
\* union of the rings, a uint8 array of 0 and 1.
DecodeMerged(segments, h, w) ==
  [p \in Pixels(w, h) |->
     IF \E k \in DOMAIN segments : RingCovers(segments[k], p[1], p[2])
       THEN 1 ELSE 0]

\* mask_utils.decode returns uint8 arrays, and numpy arithmetic on uint8
\* arrays is modulo 2^8.
UInt8Mod == 256

\* A faulty line 118: the hole rings are not subtracted.
SubtractMasksNone(pos_mask, hole_mask) == pos_mask

\* line 118: final_mask = pos_mask - hole_mask
SubtractMasks(pos_mask, hole_mask) ==
  [p \in DOMAIN pos_mask |-> (pos_mask[p] - hole_mask[p]) % UInt8Mod]

\* A faulty lines 91-96: no ring is forced to 1.
InferTypesUnforced(segmentation) ==
  [k \in DOMAIN segmentation |-> DeterminePolygonOrientation(segmentation[k])]

\* lines 91-96: the orientation of every ring, the first ring forced to 1
\* when none is.
InferTypes(segmentation) ==
  LET types == [k \in DOMAIN segmentation |->
                  DeterminePolygonOrientation(segmentation[k])]
  IN IF Len(types) > 0 /\ (\A k \in DOMAIN types : types[k] # 1)
       THEN [types EXCEPT ![1] = 1]
       ELSE types

\* A faulty lines 105-122: an all-zero mask when no ring is positive.
MaskFromSegmentsZero(positive_segments, hole_segments, img_height, img_width) ==
  IF Len(positive_segments) > 0
    THEN LET pos_mask == DecodeMerged(positive_segments, img_height, img_width)
         IN IF Len(hole_segments) > 0
              THEN SubtractMasks(pos_mask,
                                 DecodeMerged(hole_segments, img_height, img_width))
              ELSE pos_mask
    ELSE [p \in Pixels(img_width, img_height) |-> 0]

\* lines 105-122: the union of the positive rings minus the union of the
\* hole rings; None when no ring is positive.
MaskFromSegments(positive_segments, hole_segments, img_height, img_width) ==
  IF Len(positive_segments) > 0
    THEN LET pos_mask == DecodeMerged(positive_segments, img_height, img_width)
         IN IF Len(hole_segments) > 0
              THEN SubtractMasks(pos_mask,
                                 DecodeMerged(hole_segments, img_height, img_width))
              ELSE pos_mask
    ELSE NoMask

\* A faulty line 100: orientations whose number is not that of the rings
\* are replaced by the inferred ones.
CreateSegmentationMaskInferring(segmentation, segmentation_types, img_height, img_width) ==
  IF Len(segmentation) = 0 THEN NoMask
  ELSE
    LET types == IF \/ segmentation_types = None
                    \/ Len(segmentation_types[1]) # Len(segmentation)
                   THEN InferTypes(segmentation) ELSE segmentation_types[1]
        typed == [k \in DOMAIN segmentation |-> <<segmentation[k], types[k]>>]
        positive_segments == SelectSeq(typed, LAMBDA e : e[2] = 1)
        hole_segments     == SelectSeq(typed, LAMBDA e : e[2] = 0)
        rings(es) == [k \in DOMAIN es |-> es[k][1]]
    IN MaskFromSegments(rings(positive_segments), rings(hole_segments),
                        img_height, img_width)

\* create_segmentation_mask; segmentation_types is None or Some(list of 0/1).
CreateSegmentationMask(segmentation, segmentation_types, img_height, img_width) ==
  IF Len(segmentation) = 0 THEN NoMask
  ELSE
    LET types == IF segmentation_types = None
                   THEN InferTypes(segmentation) ELSE segmentation_types[1]
    IN IF Len(types) > 0 /\ Len(types) = Len(segmentation)
         THEN LET typed == [k \in DOMAIN segmentation |->
                              <<segmentation[k], types[k]>>]
                  positive_segments == SelectSeq(typed, LAMBDA e : e[2] = 1)
                  hole_segments     == SelectSeq(typed, LAMBDA e : e[2] = 0)
                  rings(es) == [k \in DOMAIN es |-> es[k][1]]
              IN MaskFromSegments(rings(positive_segments), rings(hole_segments),
                                  img_height, img_width)
         ELSE DecodeMerged(segmentation, img_height, img_width)

\* ---- the rings used as inputs, on a GridW x GridH image
OuterCW   == <<0, 0,  0, GridH,  GridW, GridH,  GridW, 0>>
InnerCCW  == <<1, 1,  GridW - 1, 1,  GridW - 1, GridH - 1,  1, GridH - 1>>
LeftCW    == <<0, 0,  0, GridH,  1, GridH,  1, 0>>
RightCW   == <<GridW - 1, 0,  GridW - 1, GridH,  GridW, GridH,  GridW, 0>>
RightCCW  == <<GridW - 1, 0,  GridW, 0,  GridW, GridH,  GridW - 1, GridH>>

\* The "segmentation" values of the annotations: no ring, a full square,
\* a square with a hole, a column with a hole ring beside it, a lone
\* counter-clockwise ring, a column.
Segmentations ==
  { <<>>, <<OuterCW>>, <<OuterCW, InnerCCW>>, <<LeftCW, RightCCW>>,
    <<InnerCCW>>, <<RightCW>> }

(***************************************************************************)
(*        CocoReconstructor._create_mask_from_annotations (core.py)        *)
(***************************************************************************)

\* ---- bound: annotations in the dataset
MaxAnns == 2

ImageIds == {1, 2}
CategoryValues == {0, 1, 2}

AnnKinds ==
  [image_id : ImageIds, category_id : CategoryValues, segmentation : Segmentations]

\* line 52
ZeroMask(w, h) == [p \in Pixels(w, h) |-> 0]

\* line 53: the annotations of the image, in array order
AnnotationsOf(anns, image_id) ==
  SelectSeq(anns, LAMBDA a : a.image_id = image_id)

\* A faulty line 61: only the segmentation is looked at.
SkippedWithoutRings(ann) == ann.segmentation = <<>>

\* line 61: "not segmentation or not category_id"
Skipped(ann) == ann.segmentation = <<>> \/ ann.category_id = 0

\* line 65
FullMaskOf(ann, h, w) ==
  IF Skipped(ann) THEN NoMask
  ELSE CreateSegmentationMask(ann.segmentation, None, h, w)

\* A faulty paint: pixels already painted are kept.
ApplyAnnotationKeep(m, ann, h, w) ==
  LET full_mask_tensor == FullMaskOf(ann, h, w)
  IN IF full_mask_tensor = NoMask THEN m
     ELSE [p \in DOMAIN m |->
             IF full_mask_tensor[p] > 0 /\ m[p] = 0 THEN ann.category_id ELSE m[p]]

\* lines 56-70: the body of the loop for one annotation
ApplyAnnotation(m, ann, h, w) ==
  LET full_mask_tensor == FullMaskOf(ann, h, w)
  IN IF full_mask_tensor = NoMask THEN m
     ELSE [p \in DOMAIN m |->
             IF full_mask_tensor[p] > 0 THEN ann.category_id ELSE m[p]]

\* _create_mask_from_annotations as a whole: the fold over the annotations.
RECURSIVE PaintAll(_, _, _, _)
PaintAll(m, annotations, h, w) ==
  IF annotations = <<>> THEN m
  ELSE PaintAll(ApplyAnnotation(m, Head(annotations), h, w), Tail(annotations), h, w)

CreateMaskFromAnnotations(anns, image_id, width, height) ==
  PaintAll(ZeroMask(width, height), AnnotationsOf(anns, image_id), height, width)

MaskInit ==
  /\ mpc = "loop"
  /\ m_anns \in SeqsUpTo(AnnKinds, MaxAnns)
  /\ m_image \in ImageIds
  /\ m_k = 1
  /\ mask = ZeroMask(GridW, GridH)
  /\ full_mask = NoMask

\* One iteration of the loop of lines 55-70.
MaskStep ==
  /\ mpc = "loop"
  /\ m_k <= Len(AnnotationsOf(m_anns, m_image))
  /\ LET ann == AnnotationsOf(m_anns, m_image)[m_k] IN
       /\ full_mask' = FullMaskOf(ann, GridH, GridW)
       /\ mask' = ApplyAnnotation(mask, ann, GridH, GridW)
  /\ m_k' = m_k + 1
  /\ UNCHANGED <<mpc, m_anns, m_image>>
  /\ UNCHANGED <<convVars, reconVars, saveVars, rasterVars, ringVars,
                 mergeVars, extractVars, splitVars, catVars, healthVars,
                 bboxVars, reuseVars, tripVars>>

\* line 72
MaskReturn ==
  /\ mpc = "loop"
  /\ m_k > Len(AnnotationsOf(m_anns, m_image))
  /\ mpc' = "done"
  /\ UNCHANGED <<m_anns, m_image, m_k, mask, full_mask>>
  /\ UNCHANGED <<convVars, reconVars, saveVars, rasterVars, ringVars,
                 mergeVars, extractVars, splitVars, catVars, healthVars,
                 bboxVars, reuseVars, tripVars>>

MaskIdle ==
  /\ mpc = "idle" /\ m_anns = <<>> /\ m_image = 1 /\ m_k = 1
  /\ mask = ZeroMask(GridW, GridH) /\ full_mask = NoMask


(***************************************************************************)
(*                  CocoReconstructor.from_coco (core.py)                  *)
(***************************************************************************)

\* ---- bounds of the reconstructor's inputs
MaxImages == 2     \* image records in the dataset
MaxWorkers == 2     \* the workers argument, and the cores of the machine

FileNames == {"a.tif", "b.tif"}

\* An image record; one that lacks "width" makes line 77 raise KeyError.
ImageRecords(i) ==
  [id : {i}, file_name : FileNames, has_width : BOOLEAN]

ImageLists ==
  { s \in SeqsUpTo(UNION {ImageRecords(i) : i \in 1..MaxImages}, MaxImages) :
      Len(s) >= 1 /\ \A i \in DOMAIN s : s[i].id = i }

Ann(image_id, category_id, segmentation) ==
  [image_id |-> image_id, category_id |-> category_id, segmentation |-> segmentation]

\* The annotation arrays of the datasets reconstructed.
ReconAnnLists ==
  { <<>>,
    <<Ann(1, 1, <<OuterCW>>)>>,
    <<Ann(1, 1, <<OuterCW>>), Ann(2, 2, <<LeftCW>>), Ann(1, 2, <<RightCW>>)>> }

\* _process_single_image raises for this record.
ImageRaises(img_info) == ~img_info.has_width

\* lines 81-85: the mask of one image, written to output_dir/file_name
WriteMask(files, img_info, anns) ==
  [files EXCEPT ![img_info.file_name] =
     CreateMaskFromAnnotations(anns, img_info.id, GridW, GridH)]

ReconInit ==
  /\ rpc = "from_coco"
  /\ r_images \in ImageLists
  /\ r_anns \in ReconAnnLists
  /\ workers \in {None} \cup {Some(w) : w \in 0..MaxWorkers}
  /\ num_workers \in 1..MaxWorkers
  \* line 36: cpu_count() when workers is 0, else workers
  /\ (workers # None /\ workers # Some(0)) => num_workers = Max(workers[1], 1)
  /\ workers = None => num_workers = 1
  /\ r_i = 1
  /\ task = [i \in DOMAIN r_images |-> "none"]
  /\ out_files = [f \in FileNames |-> NoFile]
  /\ processed = {}

Sequential == workers = None \/ workers = Some(1)

\* line 32: choose the loop; lines 38-41 submit one future per image.
FromCoco ==
  /\ rpc = "from_coco"
  /\ IF Sequential
       THEN rpc' = "sequential" /\ UNCHANGED task
       ELSE rpc' = "pool" /\ task' = [i \in DOMAIN r_images |-> "queued"]
  /\ UNCHANGED <<r_images, r_anns, workers, num_workers, r_i, out_files, processed>>
  /\ UNCHANGED <<convVars, maskVars, saveVars, rasterVars, ringVars, mergeVars,
                 extractVars, splitVars, catVars, healthVars, bboxVars,
                 reuseVars, tripVars>>

\* lines 33-34: one iteration; an exception leaves from_coco.
SeqStep ==
  /\ rpc = "sequential"
  /\ r_i <= Len(r_images)
  /\ IF ImageRaises(r_images[r_i])
       THEN /\ rpc' = "raised"
            /\ UNCHANGED <<r_i, out_files, processed>>
       ELSE /\ out_files' = WriteMask(out_files, r_images[r_i], r_anns)
            /\ processed' = processed \cup {r_i}
            /\ r_i' = r_i + 1
            /\ UNCHANGED rpc
  /\ UNCHANGED <<r_images, r_anns, workers, num_workers, task>>
  /\ UNCHANGED <<convVars, maskVars, saveVars, rasterVars, ringVars, mergeVars,
                 extractVars, splitVars, catVars, healthVars, bboxVars,
                 reuseVars, tripVars>>

SeqEnd ==
  /\ rpc = "sequential"
  /\ r_i > Len(r_images)
  /\ rpc' = "done"
  /\ UNCHANGED <<r_images, r_anns, workers, num_workers, r_i, task, out_files, processed>>
  /\ UNCHANGED <<convVars, maskVars, saveVars, rasterVars, ringVars, mergeVars,
                 extractVars, splitVars, catVars, healthVars, bboxVars,
                 reuseVars, tripVars>>

\* The executor hands the oldest queued call to an idle worker process.
PoolStart(i) ==
  /\ rpc = "pool"
  /\ task[i] = "queued"
  /\ \A j \in DOMAIN task : j < i => task[j] # "queued"
  /\ Cardinality({j \in DOMAIN task : task[j] = "running"}) < num_workers
  /\ task' = [task EXCEPT ![i] = "running"]
  /\ UNCHANGED <<rpc, r_images, r_anns, workers, num_workers, r_i, out_files, processed>>
  /\ UNCHANGED <<convVars, maskVars, saveVars, rasterVars, ringVars, mergeVars,
                 extractVars, splitVars, catVars, healthVars, bboxVars,
                 reuseVars, tripVars>>

\* A worker finishes _process_single_image: the mask is written, or the
\* exception is stored in the future (line 43 never reads it).
PoolFinish(i) ==
  /\ rpc = "pool"
  /\ task[i] = "running"
  /\ IF ImageRaises(r_images[i])
       THEN /\ task' = [task EXCEPT ![i] = "failed"]
            /\ UNCHANGED <<out_files, processed>>
       ELSE /\ task' = [task EXCEPT ![i] = "done"]
            /\ out_files' = WriteMask(out_files, r_images[i], r_anns)
            /\ processed' = processed \cup {i}
  /\ UNCHANGED <<rpc, r_images, r_anns, workers, num_workers, r_i>>
  /\ UNCHANGED <<convVars, maskVars, saveVars, rasterVars, ringVars, mergeVars,
                 extractVars, splitVars, catVars, healthVars, bboxVars,
                 reuseVars, tripVars>>

\* lines 42-43: as_completed is exhausted and the executor shuts down.
PoolEnd ==
  /\ rpc = "pool"
  /\ \A i \in DOMAIN task : task[i] \in {"done", "failed"}
  /\ rpc' = "done"
  /\ UNCHANGED <<r_images, r_anns, workers, num_workers, r_i, task, out_files, processed>>
  /\ UNCHANGED <<convVars, maskVars, saveVars, rasterVars, ringVars, mergeVars,
                 extractVars, splitVars, catVars, healthVars, bboxVars,
                 reuseVars, tripVars>>

ReconIdle ==
  /\ rpc = "idle" /\ r_images = <<>> /\ r_anns = <<>> /\ workers = None
  /\ num_workers = 1 /\ r_i = 1 /\ task = <<>>
  /\ out_files = [f \in FileNames |-> NoFile] /\ processed = {}

(***************************************************************************)
(*                           save_coco (io.py)                             *)
(***************************************************************************)

\* ---- bound: the length of the JSON text, in chunks written
MaxChunks == 3

Dest == <<"out.json">>

\* A faulty temp_path: the destination itself.
TempPathInPlace(path) == path

\* lines 66-67: temp_path = parent / ".tmp_<name>"
TempPath(path) == <<".tmp_">> \o path

Paths == {Dest, TempPath(Dest)}

\* The JSON text of obj: chunk k of n.
Document(n) == [k \in 1..n |-> "json"]
OldContent   == <<"old">>
StaleContent == <<"stale">>

SaveInit ==
  /\ spc = "makedirs"
  /\ s_doc \in {Document(n) : n \in 1..MaxChunks}
  /\ s_prev \in {NoFile, Some(OldContent)}
  /\ \E t \in {NoFile, Some(StaleContent)} :
       fs = [p \in Paths |-> IF p = Dest THEN s_prev ELSE t]
  /\ s_path = None

\* line 63
Makedirs ==
  /\ spc = "makedirs"
  /\ \/ spc' = "open"
     \/ spc' = "raised"       \* OSError, outside the try block
  /\ UNCHANGED <<s_doc, s_prev, fs, s_path>>
  /\ UNCHANGED <<convVars, maskVars, reconVars, rasterVars, ringVars,
                 mergeVars, extractVars, splitVars, catVars, healthVars,
                 bboxVars, reuseVars, tripVars>>

\* line 70: open(temp_path, 'w') creates or truncates the file
Open ==
  /\ spc = "open"
  /\ \/ /\ fs' = [fs EXCEPT ![TempPath(Dest)] = Some(<<>>)]
        /\ s_path' = TempPath(Dest)
        /\ spc' = "dump"
     \/ /\ spc' = "except"
        /\ UNCHANGED <<fs, s_path>>
  /\ UNCHANGED <<s_doc, s_prev>>
  /\ UNCHANGED <<convVars, maskVars, reconVars, rasterVars, ringVars,
                 mergeVars, extractVars, splitVars, catVars, healthVars,
                 bboxVars, reuseVars, tripVars>>

\* line 71: json.dump writes the text piece by piece
Dump ==
  /\ spc = "dump"
  /\ Len(fs[s_path][1]) < Len(s_doc)
  /\ \/ /\ fs' = [fs EXCEPT ![s_path] =
                    Some(Append(@[1], s_doc[Len(@[1]) + 1]))]
        /\ UNCHANGED spc
     \/ /\ spc' = "except"     \* a write fails
        /\ UNCHANGED fs
  /\ UNCHANGED <<s_doc, s_prev, s_path>>
  /\ UNCHANGED <<convVars, maskVars, reconVars, rasterVars, ringVars,
                 mergeVars, extractVars, splitVars, catVars, healthVars,
                 bboxVars, reuseVars, tripVars>>

\* the end of the with block: the file is closed
Close ==
  /\ spc = "dump"
  /\ Len(fs[s_path][1]) = Len(s_doc)
  /\ spc' = "rename"
  /\ UNCHANGED <<s_doc, s_prev, fs, s_path>>
  /\ UNCHANGED <<convVars, maskVars, reconVars, rasterVars, ringVars,
                 mergeVars, extractVars, splitVars, catVars, healthVars,
                 bboxVars, reuseVars, tripVars>>

\* line 74: os.rename(temp_path, path)
Rename ==
  /\ spc = "rename"
  /\ \/ /\ fs' = IF TempPath(Dest) = Dest THEN fs
                 ELSE [fs EXCEPT ![Dest] = fs[TempPath(Dest)],
                                 ![TempPath(Dest)] = NoFile]
        /\ spc' = "returned"
     \/ /\ spc' = "except"
        /\ UNCHANGED fs
  /\ UNCHANGED <<s_doc, s_prev, s_path>>
  /\ UNCHANGED <<convVars, maskVars, reconVars, rasterVars, ringVars,
                 mergeVars, extractVars, splitVars, catVars, healthVars,
                 bboxVars, reuseVars, tripVars>>

\* lines 75-79: remove the temporary file, raise OSError
Except ==
  /\ spc = "except"
  /\ fs' = [fs EXCEPT ![TempPath(Dest)] = NoFile]
  /\ spc' = "raised"
  /\ UNCHANGED <<s_doc, s_prev, s_path>>
  /\ UNCHANGED <<convVars, maskVars, reconVars, rasterVars, ringVars,
                 mergeVars, extractVars, splitVars, catVars, healthVars,
                 bboxVars, reuseVars, tripVars>>

\* The process is killed between two steps.
Crash ==
  /\ spc \in {"makedirs", "open", "dump", "rename", "except"}
  /\ spc' = "crashed"
  /\ UNCHANGED <<s_doc, s_prev, fs, s_path>>
  /\ UNCHANGED <<convVars, maskVars, reconVars, rasterVars, ringVars,
                 mergeVars, extractVars, splitVars, catVars, healthVars,
                 bboxVars, reuseVars, tripVars>>

SaveIdle ==
  /\ spc = "idle" /\ s_doc = <<>> /\ s_prev = NoFile
  /\ fs = [p \in Paths |-> NoFile] /\ s_path = None

(***************************************************************************)
(*      create_segmentation_mask and its caller (geometry.py, core.py)     *)
(***************************************************************************)

\* ---- bounds: the image size of the calls
CanvasW == 4
CanvasH == 4

\* ---- rings on a CanvasW x CanvasH image: a square that leaves the last
\* column and row outside, and a smaller square inside it
AnnulusOuter    == <<0, 0,  0, CanvasH - 1,  CanvasW - 1, CanvasH - 1,  CanvasW - 1, 0>>
AnnulusOuterCCW == <<0, 0,  CanvasW - 1, 0,  CanvasW - 1, CanvasH - 1,  0, CanvasH - 1>>
AnnulusHole     == <<1, 1,  1, CanvasH - 2,  CanvasW - 2, CanvasH - 2,  CanvasW - 2, 1>>
AnnulusHoleCCW  == <<1, 1,  CanvasW - 2, 1,  CanvasW - 2, CanvasH - 2,  1, CanvasH - 2>>

RasterSegmentations ==
  Segmentations \cup
  { <<AnnulusOuter>>, <<AnnulusOuter, AnnulusHoleCCW>>, <<AnnulusOuter, AnnulusHole>>,
    <<AnnulusHoleCCW, AnnulusOuter>>, <<AnnulusOuterCCW>>,
    <<AnnulusOuterCCW, AnnulusHoleCCW>>, <<AnnulusHoleCCW, AnnulusOuterCCW>> }

\* The segmentation_types arguments: None, or a list of 0/1 of any length
\* up to that of the longest segmentation.
RasterTypes == {None} \cup {Some(t) : t \in SeqsUpTo({0, 1}, 2)}

\* core.py:66-70: nothing is painted when create_segmentation_mask returned
\* None; else the pixels where the mask is positive take category_id.
PaintMask(m, full_mask_tensor, category_id) ==
  IF full_mask_tensor = NoMask THEN m
  ELSE [p \in DOMAIN m |-> IF full_mask_tensor[p] > 0 THEN category_id ELSE m[p]]

RasterInit ==
  /\ gpc = "call"
  /\ g_seg \in RasterSegmentations
  /\ g_types \in RasterTypes
  /\ g_result = NoMask
  /\ g_category \in CategoryIds
  /\ g_canvas \in {[p \in Pixels(CanvasW, CanvasH) |-> v] : v \in {0} \cup CategoryIds}
  /\ g_before = g_canvas

\* geometry.py:73-130
RasterCall ==
  /\ gpc = "call"
  /\ g_result' = CreateSegmentationMask(g_seg, g_types, CanvasH, CanvasW)
  /\ gpc' = "returned"
  /\ UNCHANGED <<g_seg, g_types, g_category, g_canvas, g_before>>
  /\ UNCHANGED <<convVars, maskVars, reconVars, saveVars, ringVars, mergeVars,
                 extractVars, splitVars, catVars, healthVars, bboxVars,
                 reuseVars, tripVars>>

\* core.py:66-70
RasterPaint ==
  /\ gpc = "returned"
  /\ g_canvas' = PaintMask(g_canvas, g_result, g_category)
  /\ gpc' = "painted"
  /\ UNCHANGED <<g_seg, g_types, g_result, g_category, g_before>>
  /\ UNCHANGED <<convVars, maskVars, reconVars, saveVars, ringVars, mergeVars,
                 extractVars, splitVars, catVars, healthVars, bboxVars,
                 reuseVars, tripVars>>

RasterIdle ==
  /\ gpc = "idle" /\ g_seg = <<>> /\ g_types = None /\ g_result = NoMask
  /\ g_category = 1 /\ g_canvas = <<>> /\ g_before = <<>>

(***************************************************************************)
(*     determine_polygon_orientation, reverse_orientation (geometry.py)    *)
(***************************************************************************)

\* ---- bounds of the rings
MaxCoord  == 1      \* coordinates are 0..MaxCoord
MaxPoints == 4      \* points of a ring

\* The flat coordinate lists of 0..MaxPoints points.
Rings == UNION {[1..(2 * n) -> 0..MaxCoord] : n \in 0..MaxPoints}

\* line 64: the coordinate pairs of a flat list
PointsOf(polygons) ==
  [i \in 1..(Len(polygons) \div 2) |-> <<polygons[2 * i - 1], polygons[2 * i]>>]

\* line 66: the coordinates of a list of points, in order
Flatten(points) ==
  [k \in 1..(2 * Len(points)) |-> points[(k + 1) \div 2][IF k % 2 = 1 THEN 1 ELSE 2]]

\* A faulty line 65: the closing point is dropped.
ReverseOrientationOpen(polygons) ==
  IF polygons = <<>> THEN polygons
  ELSE IF Len(polygons) < 6 THEN polygons
  ELSE LET points == PointsOf(polygons)
           n == Len(points)
       IN Flatten([i \in 1..(n - 1) |-> points[n - i]])

\* A faulty lines 64-66: the flat list is reversed coordinate by coordinate.
ReverseOrientationCoords(polygons) ==
  IF polygons = <<>> THEN polygons
  ELSE IF Len(polygons) < 6 THEN polygons
  ELSE [k \in 1..Len(polygons) |-> polygons[Len(polygons) + 1 - k]]

\* reverse_orientation of a flat coordinate list, lines 54-66.
ReverseOrientation(polygons) ==
  IF polygons = <<>> THEN polygons
  ELSE IF Len(polygons) < 6 THEN polygons
  ELSE LET points == PointsOf(polygons)
           n == Len(points)
           reversed_points == [i \in 1..n |-> points[n + 1 - i]]
       IN Flatten(reversed_points)

\* reverse_orientation of a list of rings, lines 54-55 and 68-70.
ReverseOrientationEach(polygons) ==
  IF polygons = <<>> THEN polygons
  ELSE [k \in DOMAIN polygons |-> ReverseOrientation(polygons[k])]

\* The rings of the lists of rings: none, two points, a triangle, the
\* clockwise square of test_orientation_clockwise.
ListRings == { <<>>, <<0, 0, 1, 1>>, <<0, 0, 1, 0, 0, 1>>, <<0, 0, 0, 1, 1, 1, 1, 0>> }

RingLists == SeqsUpTo(ListRings, 2)

RingInit ==
  /\ \/ opc = "classify" /\ o_polygon \in Rings /\ o_polygons = <<>>
     \/ opc = "reverse_each" /\ o_polygon = <<>> /\ o_polygons \in RingLists
  /\ o_orientation = <<>>
  /\ o_reversed = None
  /\ o_twice = None

\* determine_polygon_orientation(polygon)
RingClassify ==
  /\ opc = "classify"
  /\ o_orientation' = <<DeterminePolygonOrientation(o_polygon)>>
  /\ opc' = "reverse"
  /\ UNCHANGED <<o_polygon, o_polygons, o_reversed, o_twice>>
  /\ UNCHANGED <<convVars, maskVars, reconVars, saveVars, rasterVars,
                 mergeVars, extractVars, splitVars, catVars, healthVars,
                 bboxVars, reuseVars, tripVars>>

\* reverse_orientation(polygon), and the orientation of the result
RingReverse ==
  /\ opc = "reverse"
  /\ LET r == ReverseOrientation(o_polygon) IN
       /\ o_reversed' = Some(r)
       /\ o_orientation' = Append(o_orientation, DeterminePolygonOrientation(r))
  /\ opc' = "reverse_again"
  /\ UNCHANGED <<o_polygon, o_polygons, o_twice>>
  /\ UNCHANGED <<convVars, maskVars, reconVars, saveVars, rasterVars,
                 mergeVars, extractVars, splitVars, catVars, healthVars,
                 bboxVars, reuseVars, tripVars>>

\* reverse_orientation of the reversed ring, and the orientation of the result
RingReverseAgain ==
  /\ opc = "reverse_again"
  /\ LET r == ReverseOrientation(o_reversed[1]) IN
       /\ o_twice' = Some(r)
       /\ o_orientation' = Append(o_orientation, DeterminePolygonOrientation(r))
  /\ opc' = "done"
  /\ UNCHANGED <<o_polygon, o_polygons, o_reversed>>
  /\ UNCHANGED <<convVars, maskVars, reconVars, saveVars, rasterVars,
                 mergeVars, extractVars, splitVars, catVars, healthVars,
                 bboxVars, reuseVars, tripVars>>

\* reverse_orientation(polygons) for a list of rings
RingReverseEach ==
  /\ opc = "reverse_each"
  /\ o_reversed' = Some(ReverseOrientationEach(o_polygons))
  /\ opc' = "reverse_each_again"
  /\ UNCHANGED <<o_polygon, o_polygons, o_orientation, o_twice>>
  /\ UNCHANGED <<convVars, maskVars, reconVars, saveVars, rasterVars,
                 mergeVars, extractVars, splitVars, catVars, healthVars,
                 bboxVars, reuseVars, tripVars>>

RingReverseEachAgain ==
  /\ opc = "reverse_each_again"
  /\ o_twice' = Some(ReverseOrientationEach(o_reversed[1]))
  /\ opc' = "done"
  /\ UNCHANGED <<o_polygon, o_polygons, o_orientation, o_reversed>>
  /\ UNCHANGED <<convVars, maskVars, reconVars, saveVars, rasterVars,
                 mergeVars, extractVars, splitVars, catVars, healthVars,
                 bboxVars, reuseVars, tripVars>>

RingIdle ==
  /\ opc = "idle" /\ o_polygon = <<>> /\ o_polygons = <<>>
  /\ o_orientation = <<>> /\ o_reversed = None /\ o_twice = None

(***************************************************************************)
(*                    CocoMerger.merge_files (merger.py)                   *)
(***************************************************************************)

\* ---- bound: image ids and annotation ids are 0..MaxId
MaxId == 1

\* The subsets of S, each as the ascending sequence of its elements.
RECURSIVE Ascending(_)
Ascending(S) ==
  IF S = {} THEN <<>>
  ELSE LET m == CHOOSE x \in S : \A y \in S : y <= x
       IN Append(Ascending(S \ {m}), m)

\* An image record and an annotation record; "rest" stands for the keys
\* merge_files copies untouched (file_name, segmentation, ...) and tells
\* which record of which file this one was.
ImageRecord(file, id) == [id |-> id, rest |-> <<file, id>>]
AnnotationRecord(file, id, image_id) ==
  [id |-> id, image_id |-> image_id, rest |-> <<file, id>>]

\* The "images" arrays of a file: unique ids.
MergeImageLists(file) ==
  { [k \in DOMAIN Ascending(S) |-> ImageRecord(file, Ascending(S)[k])] :
      S \in SUBSET (0..MaxId) }

\* The "annotations" arrays of a file: unique ids, each annotation naming an
\* image id, which need not be the id of an image of the file.
MergeAnnotationLists(file, image_ids) ==
  UNION { { [k \in DOMAIN Ascending(S) |->
               AnnotationRecord(file, Ascending(S)[k], ref[Ascending(S)[k]])] :
              ref \in [S -> image_ids] } :
          S \in SUBSET (0..MaxId) }

\* The "categories" arrays of the two files: equal tables, a name that
\* differs, an id that differs, a name that only the first file has.  Within
\* one file ids and names are unique.
Category(id, name) == [id |-> id, name |-> name]
CategoryPairs ==
  { << <<Category(1, "a"), Category(2, "b")>>, <<Category(2, "b"), Category(1, "a")>> >>,
    << <<Category(1, "a")>>, <<Category(1, "b")>> >>,
    << <<Category(1, "a")>>, <<Category(2, "a")>> >>,
    << <<Category(1, "a"), Category(2, "b")>>, <<Category(1, "a")>> >> }

\* lines 58-59: {c['name']: c['id'] for c in cats}
CatsMap(cats) ==
  [n \in {cats[k].name : k \in DOMAIN cats} |->
     cats[CHOOSE k \in DOMAIN cats :
            cats[k].name = n /\ \A l \in DOMAIN cats : cats[l].name = n => l <= k].id]

\* A faulty _validate_categories: only the names are compared.
ValidationFailsNames(cats1, cats2) ==
  DOMAIN CatsMap(cats1) # DOMAIN CatsMap(cats2)

\* _validate_categories raises ValueError
ValidationFails(cats1, cats2) ==
  \/ DOMAIN CatsMap(cats1) # DOMAIN CatsMap(cats2)
  \/ \E n \in DOMAIN CatsMap(cats1) : CatsMap(cats1)[n] # CatsMap(cats2)[n]

\* max([...] or [0])
RECURSIVE MaxOf(_)
MaxOf(ids) ==
  IF ids = <<>> THEN 0
  ELSE IF Len(ids) = 1 THEN ids[1]
  ELSE Max(Head(ids), MaxOf(Tail(ids)))

IdsOf(records) == [k \in DOMAIN records |-> records[k].id]

\* A faulty _create_id_maps: the offset is the largest id, not one more.
CreateIdMapTight(records1, records2) ==
  [i \in {records2[k].id : k \in DOMAIN records2} |-> i + MaxOf(IdsOf(records1))]

\* _create_id_maps, for the images and for the annotations
CreateIdMap(records1, records2) ==
  [i \in {records2[k].id : k \in DOMAIN records2} |-> i + MaxOf(IdsOf(records1)) + 1]

MergeInit ==
  /\ jpc = "validate"
  /\ \E cats \in CategoryPairs :
     \E images1 \in MergeImageLists(1), images2 \in MergeImageLists(2) :
     \E annotations1 \in MergeAnnotationLists(1, {0}) :
     \E annotations2 \in MergeAnnotationLists(2, 0..MaxId) :
       /\ j_coco1 = [images |-> images1, annotations |-> annotations1,
                     categories |-> cats[1]]
       /\ j_coco2 = [images |-> images2, annotations |-> annotations2,
                     categories |-> cats[2]]
  /\ j_merged = <<>>
  /\ j_img_id_map = <<>>
  /\ j_ann_id_map = <<>>
  /\ j_k = 1
  /\ j_out = NoFile

\* lines 21-25: both files load; _validate_categories returns or raises
MergeValidate ==
  /\ jpc = "validate"
  /\ jpc' = IF ValidationFails(j_coco1.categories, j_coco2.categories)
              THEN "raised" ELSE "id_maps"
  /\ UNCHANGED <<j_coco1, j_coco2, j_merged, j_img_id_map, j_ann_id_map, j_k, j_out>>
  /\ UNCHANGED <<convVars, maskVars, reconVars, saveVars, rasterVars, ringVars,
                 extractVars, splitVars, catVars, healthVars, bboxVars,
                 reuseVars, tripVars>>

\* lines 28-31
MergeIdMaps ==
  /\ jpc = "id_maps"
  /\ j_merged' = j_coco1
  /\ j_img_id_map' = CreateIdMap(j_coco1.images, j_coco2.images)
  /\ j_ann_id_map' = CreateIdMap(j_coco1.annotations, j_coco2.annotations)
  /\ j_k' = 1
  /\ jpc' = "images"
  /\ UNCHANGED <<j_coco1, j_coco2, j_out>>
  /\ UNCHANGED <<convVars, maskVars, reconVars, saveVars, rasterVars, ringVars,
                 extractVars, splitVars, catVars, healthVars, bboxVars,
                 reuseVars, tripVars>>

\* lines 34-37: one iteration
MergeImage ==
  /\ jpc = "images"
  /\ j_k <= Len(j_coco2.images)
  /\ LET img == j_coco2.images[j_k] IN
       j_merged' = [j_merged EXCEPT
                      !.images = Append(@, [img EXCEPT !.id = j_img_id_map[img.id]])]
  /\ j_k' = j_k + 1
  /\ UNCHANGED <<jpc, j_coco1, j_coco2, j_img_id_map, j_ann_id_map, j_out>>
  /\ UNCHANGED <<convVars, maskVars, reconVars, saveVars, rasterVars, ringVars,
                 extractVars, splitVars, catVars, healthVars, bboxVars,
                 reuseVars, tripVars>>

MergeImagesEnd ==
  /\ jpc = "images"
  /\ j_k > Len(j_coco2.images)
  /\ j_k' = 1
  /\ jpc' = "annotations"
  /\ UNCHANGED <<j_coco1, j_coco2, j_merged, j_img_id_map, j_ann_id_map, j_out>>
  /\ UNCHANGED <<convVars, maskVars, reconVars, saveVars, rasterVars, ringVars,
                 extractVars, splitVars, catVars, healthVars, bboxVars,
                 reuseVars, tripVars>>

\* lines 40-45: one iteration; line 43 raises KeyError for an image_id that
\* is not a key of img_id_map
MergeAnnotation ==
  /\ jpc = "annotations"
  /\ j_k <= Len(j_coco2.annotations)
  /\ LET ann == j_coco2.annotations[j_k] IN
       IF ann.image_id \notin DOMAIN j_img_id_map
         THEN /\ jpc' = "raised"
              /\ UNCHANGED <<j_merged, j_k>>
         ELSE /\ j_merged' =
                   [j_merged EXCEPT
                      !.annotations =
                         Append(@, [ann EXCEPT !.image_id = j_img_id_map[ann.image_id],
                                               !.id = j_ann_id_map[ann.id]])]
              /\ j_k' = j_k + 1
              /\ UNCHANGED jpc
  /\ UNCHANGED <<j_coco1, j_coco2, j_img_id_map, j_ann_id_map, j_out>>
  /\ UNCHANGED <<convVars, maskVars, reconVars, saveVars, rasterVars, ringVars,
                 extractVars, splitVars, catVars, healthVars, bboxVars,
                 reuseVars, tripVars>>

\* lines 49-51: the categories of the second file, then save_coco
MergeSave ==
  /\ jpc = "annotations"
  /\ j_k > Len(j_coco2.annotations)
  /\ j_merged' = [j_merged EXCEPT !.categories = j_coco2.categories]
  /\ j_out' = [j_merged EXCEPT !.categories = j_coco2.categories]
  /\ jpc' = "done"
  /\ UNCHANGED <<j_coco1, j_coco2, j_img_id_map, j_ann_id_map, j_k>>
  /\ UNCHANGED <<convVars, maskVars, reconVars, saveVars, rasterVars, ringVars,
                 extractVars, splitVars, catVars, healthVars, bboxVars,
                 reuseVars, tripVars>>

MergeIdle ==
  /\ jpc = "idle" /\ j_coco1 = <<>> /\ j_coco2 = <<>> /\ j_merged = <<>>
  /\ j_img_id_map = <<>> /\ j_ann_id_map = <<>> /\ j_k = 1 /\ j_out = NoFile

(***************************************************************************)
(*      CocoConverter._process_image on the pixels (converter.py)          *)
(***************************************************************************)

\* ---- bounds: the size of the mask image
ImgW == 6
ImgH == 5

Abs(n) == IF n < 0 THEN -n ELSE n

\* A faulty line 151: connectivity=2, pixels that touch at a corner are
\* neighbours too.
NeighboursFull(p, q, connectivity) ==
  p # q /\ Abs(p[1] - q[1]) <= 1 /\ Abs(p[2] - q[2]) <= 1

\* The neighbourhood of skimage: connectivity 1 joins pixels that share an
\* edge, connectivity 2 also those that share a corner.
Neighbours(p, q, connectivity) ==
  /\ p # q /\ Abs(p[1] - q[1]) <= 1 /\ Abs(p[2] - q[2]) <= 1
  /\ connectivity = 1 => Abs(p[1] - q[1]) + Abs(p[2] - q[2]) = 1

\* The pixels of S connected to those of C.
RECURSIVE Grow(_, _, _)
Grow(S, C, connectivity) ==
  LET N == {p \in S \ C : \E q \in C : Neighbours(p, q, connectivity)}
  IN IF N = {} THEN C ELSE Grow(S, C \cup N, connectivity)

\* The first pixel of S in raster order (row by row).
RasterFirst(S) ==
  CHOOSE p \in S : \A q \in S : p[2] < q[2] \/ (p[2] = q[2] /\ p[1] <= q[1])

\* measure.label: the connected components of a binary mask, numbered in
\* raster order of their first pixel.
RECURSIVE Label(_, _)
Label(S, connectivity) ==
  IF S = {} THEN <<>>
  ELSE LET object == Grow(S, {RasterFirst(S)}, connectivity)
       IN <<object>> \o Label(S \ object, connectivity)

\* lines 142-143: the nonzero values of the image, ascending
RECURSIVE AscendingValues(_)
AscendingValues(S) ==
  IF S = {} THEN <<>>
  ELSE LET m == CHOOSE x \in S : \A y \in S : x <= y
       IN <<m>> \o AscendingValues(S \ {m})

ClassIds(img) == AscendingValues({img[p] : p \in DOMAIN img} \ {0})

\* line 169: the image with a border of one pixel
PaddedPixels == ((-1)..ImgW) \X ((-1)..ImgH)

\* The squares of four neighbouring pixel centres, by their top left pixel.
Cells == ((-1)..(ImgW - 1)) \X ((-1)..(ImgH - 1))
Corners(c) == {c, <<c[1] + 1, c[2]>>, <<c[1], c[2] + 1>>, <<c[1] + 1, c[2] + 1>>}

\* measure.find_contours(padded_mask, 0.5) joins the midpoints between a
\* pixel of the object and a pixel outside it.  The area, in eighths of a
\* pixel, that a contour encloses inside one cell: R is the set of pixels
\* the contour encloses; at a cell with two diagonal pixels of the object
\* the contour cuts them apart (fully_connected='low').
CellArea8(R, c, encloses_object) ==
  LET n == Cardinality(Corners(c) \cap R)
      diagonal == /\ n = 2
                  /\ \E p, q \in Corners(c) \cap R : p[1] # q[1] /\ p[2] # q[2]
  IN IF n = 4 THEN 8
     ELSE IF n = 3 THEN 7
     ELSE IF n = 2 THEN (IF ~diagonal THEN 4 ELSE IF encloses_object THEN 2 ELSE 6)
     ELSE n

RECURSIVE SumCells(_, _, _)
SumCells(R, cells, encloses_object) ==
  IF cells = {} THEN 0
  ELSE LET c == CHOOSE c \in cells : TRUE
       IN CellArea8(R, c, encloses_object) + SumCells(R, cells \ {c}, encloses_object)

\* Polygon(contour).area, in eighths of a pixel
PolygonArea8(R, encloses_object) ==
  SumCells(R, {c \in Cells : Corners(c) \cap R # {}}, encloses_object)

\* The pixels around the object: what is outside it, reached from the border
\* (the pixels below the level are fully connected).
Outside(sub_mask) == Grow(PaddedPixels \ sub_mask, {<<-1, -1>>}, 2)

\* The contours of lines 169-170: the outer contour of the object, and one
\* contour around every region of pixels enclosed by the object.
Contours(sub_mask) ==
  LET outside  == Outside(sub_mask)
      holes    == Label((PaddedPixels \ sub_mask) \ outside, 2)
  IN <<[outer |-> TRUE, encloses |-> PaddedPixels \ outside]>>
       \o [k \in DOMAIN holes |-> [outer |-> FALSE, encloses |-> holes[k]]]

\* combined.bounds of line 160, in half pixels: the contours pass half a
\* pixel outside the outermost pixel centres.
Bounds2(R) ==
  LET xs == {p[1] : p \in R}
      ys == {p[2] : p \in R}
      lo(S) == CHOOSE v \in S : \A w \in S : v <= w
      hi(S) == CHOOSE v \in S : \A w \in S : v >= w
  IN <<2 * lo(xs) - 1, 2 * lo(ys) - 1, 2 * hi(xs) + 1, 2 * hi(ys) + 1>>

\* bbox_from_polygons for the polygons of one object, in half pixels
BboxFromPolygons(polygons) ==
  IF polygons = <<>> THEN <<0, 0, 0, 0>>
  ELSE LET b == Bounds2(UNION {polygons[k].encloses : k \in DOMAIN polygons})
       IN <<b[1], b[2], Max(0, b[3] - b[1]), Max(0, b[4] - b[2])>>

\* MultiPolygon(polygons).area: the sum of the areas of the polygons
RECURSIVE MultiPolygonArea8(_)
MultiPolygonArea8(polygons) ==
  IF polygons = <<>> THEN 0
  ELSE PolygonArea8(Head(polygons).encloses, Head(polygons).outer)
         + MultiPolygonArea8(Tail(polygons))

\* _create_sub_mask_annotation for the pixels of one object: every contour
\* is a simple closed polygon, so every contour is kept by lines 177-187.
\* A ring of "segmentation" is given by its kind and its area; bbox is in
\* half pixels and area in eighths of a pixel.
SubMaskAnnotation(sub_mask, image_id, category_id, ann_id) ==
  LET polygons == Contours(sub_mask)
  IN IF polygons = <<>> THEN None
     ELSE [segmentation |->
             [k \in DOMAIN polygons |->
                [outer |-> polygons[k].outer,
                 area  |-> PolygonArea8(polygons[k].encloses, polygons[k].outer)]],
           image_id |-> image_id,
           category_id |-> category_id,
           id |-> ann_id,
           bbox |-> BboxFromPolygons(polygons),
           area |-> MultiPolygonArea8(polygons)]

\* ---- the mask images: regions of the image, each filled with one value
Rect(x1, x2, y1, y2) == (x1..x2) \X (y1..y2)

RegionA1 == {<<0, 0>>}                                    \* 1 pixel
RegionA9 == Rect(0, 4, 0, 1) \ RegionA1                   \* 9 pixels around it
RegionB  == {<<5, 2>>} \cup Rect(1, 5, 3, 3) \cup Rect(2, 5, 4, 4)   \* 10 pixels
RegionC  == {<<0, 4>>}                                    \* 1 pixel
RegionRing == Rect(0, 3, 0, 2) \ Rect(1, 2, 1, 1)         \* 10 pixels
RegionHole == Rect(1, 2, 1, 1)                            \* the 2 pixels inside

\* 0 is background, 3 is in no category table.
PixelValueRange == {0} \cup PixelValues

Filled(regions) ==
  [p \in Pixels(ImgW, ImgH) |->
     IF \E k \in DOMAIN regions : p \in regions[k][1]
       THEN regions[CHOOSE k \in DOMAIN regions : p \in regions[k][1]][2]
       ELSE 0]

\* Two blocks that touch at one corner, with a pixel of the first block and
\* a lone pixel of their own value; or a ring around two pixels.
MaskImages ==
  { Filled(<< <<RegionA9, a>>, <<RegionA1, b>>, <<RegionB, c>>, <<RegionC, d>> >>) :
      a \in PixelValueRange, b \in PixelValueRange,
      c \in PixelValueRange, d \in PixelValueRange }
  \cup
  { Filled(<< <<RegionRing, a>>, <<RegionHole, b>> >>) :
      a \in PixelValueRange, b \in PixelValueRange }

ExtractInit ==
  /\ xpc = "start"
  /\ x_img \in MaskImages
  /\ x_class_ids = <<>>
  /\ x_ci = 1
  /\ x_objects = <<>>
  /\ x_oi = 1
  /\ x_annotation_id = 1
  /\ x_annotations = <<>>
  /\ x_sub_masks = <<>>

\* lines 131-145
ExtractStart ==
  /\ xpc = "start"
  /\ x_class_ids' = ClassIds(x_img)
  /\ x_ci' = 1
  /\ x_annotation_id' = 1
  /\ xpc' = "classes"
  /\ UNCHANGED <<x_img, x_objects, x_oi, x_annotations, x_sub_masks>>
  /\ UNCHANGED <<convVars, maskVars, reconVars, saveVars, rasterVars, ringVars,
                 mergeVars, splitVars, catVars, healthVars, bboxVars,
                 reuseVars, tripVars>>

\* lines 146-148: a value that is not in the category table
ExtractSkipClass ==
  /\ xpc = "classes"
  /\ x_ci <= Len(x_class_ids)
  /\ x_class_ids[x_ci] \notin CategoryIds
  /\ x_ci' = x_ci + 1
  /\ UNCHANGED <<xpc, x_img, x_class_ids, x_objects, x_oi, x_annotation_id,
                 x_annotations, x_sub_masks>>
  /\ UNCHANGED <<convVars, maskVars, reconVars, saveVars, rasterVars, ringVars,
                 mergeVars, splitVars, catVars, healthVars, bboxVars,
                 reuseVars, tripVars>>

\* lines 150-151
ExtractLabel ==
  /\ xpc = "classes"
  /\ x_ci <= Len(x_class_ids)
  /\ x_class_ids[x_ci] \in CategoryIds
  /\ x_objects' = Label({p \in DOMAIN x_img : x_img[p] = x_class_ids[x_ci]}, 1)
  /\ x_oi' = 1
  /\ xpc' = "objects"
  /\ UNCHANGED <<x_img, x_class_ids, x_ci, x_annotation_id, x_annotations, x_sub_masks>>
  /\ UNCHANGED <<convVars, maskVars, reconVars, saveVars, rasterVars, ringVars,
                 mergeVars, splitVars, catVars, healthVars, bboxVars,
                 reuseVars, tripVars>>

\* lines 153-156: an object of fewer than 10 pixels
ExtractSkipTiny ==
  /\ xpc = "objects"
  /\ x_oi <= Len(x_objects)
  /\ Cardinality(x_objects[x_oi]) < MinObjectPixels
  /\ x_oi' = x_oi + 1
  /\ UNCHANGED <<xpc, x_img, x_class_ids, x_ci, x_objects, x_annotation_id,
                 x_annotations, x_sub_masks>>
  /\ UNCHANGED <<convVars, maskVars, reconVars, saveVars, rasterVars, ringVars,
                 mergeVars, splitVars, catVars, healthVars, bboxVars,
                 reuseVars, tripVars>>

\* lines 153-161: an object of 10 pixels or more
ExtractAnnotate ==
  /\ xpc = "objects"
  /\ x_oi <= Len(x_objects)
  /\ Cardinality(x_objects[x_oi]) >= MinObjectPixels
  /\ LET annotation ==
           SubMaskAnnotation(x_objects[x_oi], 1, x_class_ids[x_ci], x_annotation_id)
     IN IF annotation # None
          THEN /\ x_annotations' = Append(x_annotations, annotation)
               /\ x_sub_masks' = Append(x_sub_masks, x_objects[x_oi])
               /\ x_annotation_id' = x_annotation_id + 1
          ELSE UNCHANGED <<x_annotations, x_sub_masks, x_annotation_id>>
  /\ x_oi' = x_oi + 1
  /\ UNCHANGED <<xpc, x_img, x_class_ids, x_ci, x_objects>>
  /\ UNCHANGED <<convVars, maskVars, reconVars, saveVars, rasterVars, ringVars,
                 mergeVars, splitVars, catVars, healthVars, bboxVars,
                 reuseVars, tripVars>>

\* the end of the loop of line 153: the next value
ExtractNextClass ==
  /\ xpc = "objects"
  /\ x_oi > Len(x_objects)
  /\ x_ci' = x_ci + 1
  /\ xpc' = "classes"
  /\ UNCHANGED <<x_img, x_class_ids, x_objects, x_oi, x_annotation_id,
                 x_annotations, x_sub_masks>>
  /\ UNCHANGED <<convVars, maskVars, reconVars, saveVars, rasterVars, ringVars,
                 mergeVars, splitVars, catVars, healthVars, bboxVars,
                 reuseVars, tripVars>>

\* line 163
ExtractReturn ==
  /\ xpc = "classes"
  /\ x_ci > Len(x_class_ids)
  /\ xpc' = "done"
  /\ UNCHANGED <<x_img, x_class_ids, x_ci, x_objects, x_oi, x_annotation_id,
                 x_annotations, x_sub_masks>>
  /\ UNCHANGED <<convVars, maskVars, reconVars, saveVars, rasterVars, ringVars,
                 mergeVars, splitVars, catVars, healthVars, bboxVars,
                 reuseVars, tripVars>>

ExtractIdle ==
  /\ xpc = "idle" /\ x_img = <<>> /\ x_class_ids = <<>> /\ x_ci = 1
  /\ x_objects = <<>> /\ x_oi = 1 /\ x_annotation_id = 1
  /\ x_annotations = <<>> /\ x_sub_masks = <<>>

(***************************************************************************)
(*                   CocoSplitter.split_file (splitter.py)                 *)
(***************************************************************************)

\* ---- bounds of the dataset that is split
MaxSplitImages == 2
MaxSplitAnns == 2

\* The file names of the images and Path(file_name).stem of each; two of
\* them differ only in the extension.
ImageFileNames == {"a.png", "b.png", "a.jpg"}
Stem(file_name) == IF file_name = "b.png" THEN "b" ELSE "a"

\* The "images" arrays: ids are unique within a dataset.
SplitImageLists ==
  { l \in SeqsUpTo([id : 1..MaxSplitImages, file_name : ImageFileNames],
                   MaxSplitImages) :
      \A a, b \in DOMAIN l : a # b => l[a].id # l[b].id }

\* The "annotations" arrays: the id is the position, the image_id is any id
\* an image may have or one that no image has.
SplitAnnotationLists ==
  UNION { { [k \in 1..n |-> [id |-> k, image_id |-> ref[k]]] :
              ref \in [1..n -> 1..(MaxSplitImages + 1)] } :
          n \in 0..MaxSplitAnns }

SplitCategories == <<Category(1, "a"), Category(2, "b")>>

\* A faulty lines 48-51: the annotations are not filtered.
ImageAnnotationsAll(annotations, image_id) == annotations

\* lines 48-51: [ann for ann in annotations if ann['image_id'] == image_id]
ImageAnnotations(annotations, image_id) ==
  SelectSeq(annotations, LAMBDA ann : ann.image_id = image_id)

\* lines 54-60; info and licenses are copied like the categories
IndividualCoco(coco, image_info) ==
  [images |-> <<image_info>>,
   annotations |-> ImageAnnotations(coco.annotations, image_info.id),
   categories |-> coco.categories]

\* lines 63-68 with the default naming_pattern "{image_name}"
OutputFilename(image_info) == <<Stem(image_info.file_name), ".json">>

SplitInit ==
  /\ kpc = "load"
  /\ \E images \in SplitImageLists, annotations \in SplitAnnotationLists :
       k_coco = [images |-> images, annotations |-> annotations,
                 categories |-> SplitCategories]
  /\ k_i = 1
  /\ k_saved = <<>>
  /\ k_created = <<>>
  /\ k_fs = [f \in {<<Stem(n), ".json">> : n \in ImageFileNames} |-> NoFile]

\* lines 35-40: the file loads and output_dir is created
SplitLoad ==
  /\ kpc = "load"
  /\ kpc' = "images"
  /\ UNCHANGED <<k_coco, k_i, k_saved, k_created, k_fs>>
  /\ UNCHANGED <<convVars, maskVars, reconVars, saveVars, rasterVars, ringVars,
                 mergeVars, extractVars, catVars, healthVars, bboxVars,
                 reuseVars, tripVars>>

\* lines 42-72: one iteration; save_coco replaces what the path held
SplitImage ==
  /\ kpc = "images"
  /\ k_i <= Len(k_coco.images)
  /\ LET image_info == k_coco.images[k_i]
         individual_coco == IndividualCoco(k_coco, image_info)
     IN /\ k_saved' = Append(k_saved, individual_coco)
        /\ k_fs' = [k_fs EXCEPT ![OutputFilename(image_info)] = individual_coco]
        /\ k_created' = Append(k_created, OutputFilename(image_info))
  /\ k_i' = k_i + 1
  /\ UNCHANGED <<kpc, k_coco>>
  /\ UNCHANGED <<convVars, maskVars, reconVars, saveVars, rasterVars, ringVars,
                 mergeVars, extractVars, catVars, healthVars, bboxVars,
                 reuseVars, tripVars>>

\* line 74
SplitReturn ==
  /\ kpc = "images"
  /\ k_i > Len(k_coco.images)
  /\ kpc' = "done"
  /\ UNCHANGED <<k_coco, k_i, k_saved, k_created, k_fs>>
  /\ UNCHANGED <<convVars, maskVars, reconVars, saveVars, rasterVars, ringVars,
                 mergeVars, extractVars, catVars, healthVars, bboxVars,
                 reuseVars, tripVars>>

SplitIdle ==
  /\ kpc = "idle" /\ k_coco = <<>> /\ k_i = 1 /\ k_saved = <<>>
  /\ k_created = <<>> /\ k_fs = <<>>

(***************************************************************************)
(*                  CategoryManager.__init__ (categories.py)               *)
(***************************************************************************)

\* ---- bounds of the categories file
MaxCats == 3
MaxCatId == 2

\* An entry of the file: "id" and "name" are None when the key is absent
\* (category.get returns None), else Some(value).
CategoryEntries ==
  [id : {None} \cup {Some(i) : i \in 1..MaxCatId},
   name : {None} \cup {Some(n) : n \in {"a", "b"}}]

\* A faulty lines 35-41: a repeated name is accepted.
RejectsIdsOnly(category, ids, names) ==
  \/ category.id = None
  \/ category.name = None
  \/ category.id \in ids

\* lines 35-41: the three conditions under which the loop raises ValueError
Rejects(category, ids, names) ==
  \/ category.id = None
  \/ category.name = None
  \/ category.id \in ids
  \/ category.name \in names

CatInit ==
  /\ cpc = "open"
  /\ c_file \in {"None", "missing", "readable"}
  /\ c_categories \in SeqsUpTo(CategoryEntries, MaxCats)
  /\ c_i = 1
  /\ c_ids = {}
  /\ c_names = {}
  /\ c_id_to_name = <<>>
  /\ c_name_to_id = <<>>

\* lines 16-29: ValueError without a path or without the file
CatOpen ==
  /\ cpc = "open"
  /\ cpc' = IF c_file = "readable" THEN "loop" ELSE "raised"
  /\ UNCHANGED <<c_file, c_categories, c_i, c_ids, c_names, c_id_to_name,
                 c_name_to_id>>
  /\ UNCHANGED <<convVars, maskVars, reconVars, saveVars, rasterVars, ringVars,
                 mergeVars, extractVars, splitVars, healthVars, bboxVars,
                 reuseVars, tripVars>>

\* lines 31-47: one iteration
CatEntry ==
  /\ cpc = "loop"
  /\ c_i <= Len(c_categories)
  /\ LET category == c_categories[c_i] IN
       IF Rejects(category, c_ids, c_names)
         THEN /\ cpc' = "raised"
              /\ UNCHANGED <<c_i, c_ids, c_names, c_id_to_name, c_name_to_id>>
         ELSE /\ c_ids' = c_ids \cup {category.id}
              /\ c_names' = c_names \cup {category.name}
              /\ c_id_to_name' = (category.id[1] :> category.name[1]) @@ c_id_to_name
              /\ c_name_to_id' = (category.name[1] :> category.id[1]) @@ c_name_to_id
              /\ c_i' = c_i + 1
              /\ UNCHANGED cpc
  /\ UNCHANGED <<c_file, c_categories>>
  /\ UNCHANGED <<convVars, maskVars, reconVars, saveVars, rasterVars, ringVars,
                 mergeVars, extractVars, splitVars, healthVars, bboxVars,
                 reuseVars, tripVars>>

\* the loop is exhausted: __init__ returns
CatReturn ==
  /\ cpc = "loop"
  /\ c_i > Len(c_categories)
  /\ cpc' = "done"
  /\ UNCHANGED <<c_file, c_categories, c_i, c_ids, c_names, c_id_to_name,
                 c_name_to_id>>
  /\ UNCHANGED <<convVars, maskVars, reconVars, saveVars, rasterVars, ringVars,
                 mergeVars, extractVars, splitVars, healthVars, bboxVars,
                 reuseVars, tripVars>>

CatIdle ==
  /\ cpc = "idle" /\ c_file = "None" /\ c_categories = <<>> /\ c_i = 1
  /\ c_ids = {} /\ c_names = {} /\ c_id_to_name = <<>> /\ c_name_to_id = <<>>

(***************************************************************************)
(*                     CocoHealthChecker (checker.py)                      *)
(***************************************************************************)

\* ---- bounds of the dataset that is checked
MaxHealthImages == 2
MaxHealthAnns == 2

\* The "images" arrays: unique ids, in ascending order.
HealthImageLists ==
  { [k \in DOMAIN Ascending(S) |-> [id |-> Ascending(S)[k]]] :
      S \in SUBSET (1..MaxHealthImages) }

\* The "categories" arrays; category id 3 is defined by none of them.
HealthCategoryLists ==
  { <<>>, <<Category(1, "a")>>, <<Category(2, "b")>>,
    <<Category(1, "a"), Category(2, "b")>> }

\* The "annotations" arrays: the id is the position; image_id and
\* category_id may name an image and a category that are not there.
HealthAnnotationLists ==
  UNION { { [k \in 1..n |-> [id |-> k, image_id |-> ref[k][1],
                             category_id |-> ref[k][2]]] :
              ref \in [1..n -> (1..(MaxHealthImages + 1)) \X (1..3)] } :
          n \in 0..MaxHealthAnns }

\* lines 70-76
BasicStats(coco) ==
  [n_images |-> Len(coco.images), n_annotations |-> Len(coco.annotations),
   n_categories |-> Len(coco.categories)]

\* lines 121-124: the keys of defined_categories
DefinedCategoryIds(coco) == {coco.categories[k].id : k \in DOMAIN coco.categories}

\* lines 127-130
UsedCategoryIds(coco) == {coco.annotations[k].category_id : k \in DOMAIN coco.annotations}

\* lines 113-148; undefined_categories is list(set), kept as the set
CheckOrphanedCategories(coco) ==
  LET unused_categories ==
        SelectSeq(coco.categories, LAMBDA cat : cat.id \notin UsedCategoryIds(coco))
      undefined_categories == UsedCategoryIds(coco) \ DefinedCategoryIds(coco)
  IN [valid |-> Len(unused_categories) = 0 /\ Cardinality(undefined_categories) = 0,
      unused_categories |-> unused_categories,
      undefined_categories |-> undefined_categories,
      unused_count |-> Len(unused_categories),
      undefined_count |-> Cardinality(undefined_categories)]

\* lines 157-167: the count of every defined category
CountAnnotationsPerClass(coco) ==
  [c \in DefinedCategoryIds(coco) |->
     Cardinality({k \in DOMAIN coco.annotations : coco.annotations[k].category_id = c})]

\* A faulty line 201: the ids that annotations name, not the ids of images.
ValidImageIdsNamed(coco) == {coco.annotations[k].image_id : k \in DOMAIN coco.annotations}

\* line 201
ValidImageIds(coco) == {coco.images[k].id : k \in DOMAIN coco.images}

\* lines 194-212
CheckOrphanedAnnotations(coco) ==
  LET orphaned ==
        IdsOf(SelectSeq(coco.annotations,
                        LAMBDA ann : ann.image_id \notin ValidImageIds(coco)))
  IN [valid |-> Len(orphaned) = 0, orphaned_ids |-> orphaned, count |-> Len(orphaned)]

\* lines 214-232
CheckImagesWithoutAnnotations(coco) ==
  LET images_with_anns ==
        {coco.annotations[k].image_id : k \in DOMAIN coco.annotations}
      images_without_anns ==
        IdsOf(SelectSeq(coco.images, LAMBDA img : img.id \notin images_with_anns))
  IN [count |-> Len(images_without_anns), images |-> images_without_anns]

HealthInit ==
  /\ hpc = "construct"
  /\ \E images \in HealthImageLists, annotations \in HealthAnnotationLists,
        categories \in HealthCategoryLists :
       h_coco = [images |-> images, annotations |-> annotations,
                 categories |-> categories]
  /\ h_results = None

\* lines 38-41: load_coco finds the three required keys
HealthConstruct ==
  /\ hpc = "construct"
  /\ hpc' = "constructed"
  /\ UNCHANGED <<h_coco, h_results>>
  /\ UNCHANGED <<convVars, maskVars, reconVars, saveVars, rasterVars, ringVars,
                 mergeVars, extractVars, splitVars, catVars, bboxVars,
                 reuseVars, tripVars>>

\* lines 53-68: the checks read self.coco_data and change nothing; those of
\* lines 57, 60 and 63-66 read the segmentation and the bbox of the
\* annotations through ann.get and are not part of the result kept here
RunAllChecks ==
  /\ hpc = "constructed"
  /\ h_results' = [basic_stats |-> BasicStats(h_coco),
                   orphaned_categories |-> CheckOrphanedCategories(h_coco),
                   category_distribution |-> CountAnnotationsPerClass(h_coco),
                   orphaned_annotations |-> CheckOrphanedAnnotations(h_coco),
                   images_without_annotations |->
                     CheckImagesWithoutAnnotations(h_coco)]
  /\ hpc' = "done"
  /\ UNCHANGED h_coco
  /\ UNCHANGED <<convVars, maskVars, reconVars, saveVars, rasterVars, ringVars,
                 mergeVars, extractVars, splitVars, catVars, bboxVars,
                 reuseVars, tripVars>>

HealthIdle ==
  /\ hpc = "idle" /\ h_coco = <<>> /\ h_results = None

(***************************************************************************)
(*                    bbox_from_polygons (geometry.py)                     *)
(***************************************************************************)

\* ---- bound: the length of the list of polygons
MaxPolys == 3

\* A shapely Polygon is the sequence of the vertices of its shell; Polygon()
\* has none.
EmptyPolygon == <<>>
SquareAt(x, y, side) ==
  << <<x, y>>, <<x, y + side>>, <<x + side, y + side>>, <<x + side, y>> >>
TriangleAt(x, y) == << <<x, y>>, <<x + 3, y>>, <<x, y + 1>> >>
\* Polygon([(0, 0), (1, 1), (1, 0), (0, 1)]) of the tests, scaled by 2
Bowtie == << <<0, 0>>, <<2, 2>>, <<2, 0>>, <<0, 2>> >>
\* three collinear vertices
Sliver == << <<0, 4>>, <<2, 4>>, <<4, 4>> >>

ShapelyPolygons ==
  { EmptyPolygon, SquareAt(0, 0, 2), SquareAt(1, 1, 2), SquareAt(0 - 2, 0 - 1, 1),
    TriangleAt(1, 0), Bowtie, Sliver }

\* p.is_empty
IsEmpty(p) == p = <<>>

\* The sign of the turn a -> b -> c.
Turn(a, b, c) ==
  LET cross == (b[1] - a[1]) * (c[2] - a[2]) - (b[2] - a[2]) * (c[1] - a[1])
  IN IF cross > 0 THEN 1 ELSE IF cross < 0 THEN 0 - 1 ELSE 0

\* Two edges of the shell cross at a point interior to both.
EdgesCross(p, i, j) ==
  LET a == p[i]
      b == p[IF i = Len(p) THEN 1 ELSE i + 1]
      c == p[j]
      d == p[IF j = Len(p) THEN 1 ELSE j + 1]
  IN /\ Turn(a, b, c) * Turn(a, b, d) < 0
     /\ Turn(c, d, a) * Turn(c, d, b) < 0

\* p.is_valid for the polygons above: an empty polygon is valid; a shell is
\* valid when it encloses an area and no two of its edges cross.
IsValid(p) ==
  \/ p = <<>>
  \/ /\ \E i, j, k \in DOMAIN p : Turn(p[i], p[j], p[k]) # 0
     /\ \A i, j \in DOMAIN p : ~EdgesCross(p, i, j)

\* A faulty line 145: the invalid polygons are kept.
ValidPolygonsUnchecked(polygons) ==
  SelectSeq(polygons, LAMBDA p : ~IsEmpty(p))

\* line 145
ValidPolygons(polygons) ==
  SelectSeq(polygons, LAMBDA p : IsValid(p) /\ ~IsEmpty(p))

\* p.bounds: (minx, miny, maxx, maxy) of one non-empty polygon
BoundsOf(p) ==
  LET xs == {p[k][1] : k \in DOMAIN p}
      ys == {p[k][2] : k \in DOMAIN p}
  IN <<CHOOSE v \in xs : \A w \in xs : v <= w,
       CHOOSE v \in ys : \A w \in ys : v <= w,
       CHOOSE v \in xs : \A w \in xs : v >= w,
       CHOOSE v \in ys : \A w \in ys : v >= w>>

\* unary_union(valid_polygons).bounds: the bounds of a union are the
\* extremes of the bounds of its parts
RECURSIVE UnionBounds(_)
UnionBounds(valid_polygons) ==
  IF Len(valid_polygons) = 1 THEN BoundsOf(valid_polygons[1])
  ELSE LET b == BoundsOf(Head(valid_polygons))
           u == UnionBounds(Tail(valid_polygons))
       IN <<Min(b[1], u[1]), Min(b[2], u[2]), Max(b[3], u[3]), Max(b[4], u[4])>>

\* bbox_from_polygons, lines 133-166, for a list of shapely polygons
BboxFromPolygonList(polygons) ==
  IF polygons = <<>> THEN <<0, 0, 0, 0>>
  ELSE IF ValidPolygons(polygons) = <<>> THEN <<0, 0, 0, 0>>
  ELSE LET combined == IF Len(ValidPolygons(polygons)) = 1
                         THEN BoundsOf(ValidPolygons(polygons)[1])
                         ELSE UnionBounds(ValidPolygons(polygons))
       IN <<combined[1], combined[2],
            Max(0, combined[3] - combined[1]), Max(0, combined[4] - combined[2])>>

BboxInit ==
  /\ bpc = "call"
  /\ b_polygons \in SeqsUpTo(ShapelyPolygons, MaxPolys)
  /\ b_bbox = None

BboxCall ==
  /\ bpc = "call"
  /\ b_bbox' = Some(BboxFromPolygonList(b_polygons))
  /\ bpc' = "returned"
  /\ UNCHANGED b_polygons
  /\ UNCHANGED <<convVars, maskVars, reconVars, saveVars, rasterVars, ringVars,
                 mergeVars, extractVars, splitVars, catVars, healthVars,
                 reuseVars, tripVars>>

BboxIdle ==
  /\ bpc = "idle" /\ b_polygons = <<>> /\ b_bbox = None

(***************************************************************************)
(*        from_masks called again on one CocoConverter (converter.py)      *)
(***************************************************************************)

\* ---- bound: from_masks calls on one instance
MaxCalls == 2

\* __init__ (lines 20-28), then the first call of from_masks.
ReuseInit ==
  /\ ConvInit
  /\ calls = 1

\* from_masks has returned and is called again, on any input_dir and in
\* either mode, with the same output_file: self.coco_data is what the last
\* call left (only line 91 ever replaces it), the argument lists and the
\* local annotation_id of _process_single_file are new.
FromMasksAgain ==
  /\ pc = "done"
  /\ calls < MaxCalls
  /\ calls' = calls + 1
  /\ pc' = "from_masks"
  /\ per_file' \in BOOLEAN
  /\ n_files' \in 0..MaxFiles
  /\ tiff_files' = <<>>
  /\ idx' = 1
  /\ annotation_id' = 1
  /\ UNCHANGED <<coco_data, written, log, reported>>
  /\ UNCHANGED <<maskVars, reconVars, saveVars, rasterVars, ringVars,
                 mergeVars, extractVars, splitVars, catVars, healthVars,
                 bboxVars, tripVars>>

ReuseIdle == calls = 1

(***************************************************************************)
(*   A mask converted to annotations and rebuilt (converter.py, core.py)   *)
(***************************************************************************)

\* ---- the contours of line 170, as polygons.  A vertex of a contour of
\* measure.find_contours(padded_mask, 0.5) is the midpoint between two
\* neighbouring pixel centres, one in the object and one outside; line 176
\* moves the contour back by the pad.  Coordinates are in half pixels, the
\* centre of pixel (x, y) is at <<2 * x, 2 * y>>.

\* The edges of the contour around R inside one cell of four pixel centres.
CellSegments(R, c, encloses_object) ==
  LET top    == <<2 * c[1] + 1, 2 * c[2]>>
      bottom == <<2 * c[1] + 1, 2 * c[2] + 2>>
      left   == <<2 * c[1], 2 * c[2] + 1>>
      right  == <<2 * c[1] + 2, 2 * c[2] + 1>>
      inside == Corners(c) \cap R
      n      == Cardinality(inside)
      \* the edge that cuts one corner of the cell off
      cut(p) == <<IF p[2] = c[2] THEN top ELSE bottom,
                  IF p[1] = c[1] THEN left ELSE right>>
      diagonal == \E p, q \in inside : p[1] # q[1] /\ p[2] # q[2]
  IN IF n = 1 THEN {cut(p) : p \in inside}
     ELSE IF n = 3 THEN {cut(p) : p \in Corners(c) \ inside}
     ELSE IF n = 2 /\ diagonal
       THEN (IF encloses_object THEN {cut(p) : p \in inside}
                                ELSE {cut(p) : p \in Corners(c) \ inside})
     ELSE IF n = 2
       THEN (IF \E p, q \in inside : p[1] # q[1] THEN {<<left, right>>}
                                                 ELSE {<<top, bottom>>})
     ELSE {}

\* The edges of one contour.
ContourSegments(R, encloses_object) ==
  UNION {CellSegments(R, c, encloses_object) : c \in Cells}

\* lines 169-187: the rings of "segmentation" of one object; a ring is
\* given by the set of its edges.
SubMaskSegmentation(sub_mask) ==
  LET polygons == Contours(sub_mask)
  IN [k \in DOMAIN polygons |->
        [outer    |-> polygons[k].outer,
         segments |-> ContourSegments(polygons[k].encloses, polygons[k].outer)]]

\* lines 142-161 for one mask image: an annotation for every object of
\* MinObjectPixels pixels or more of every value of the category table.
RECURSIVE CreateAnnotations(_, _)
CreateAnnotations(img, class_ids) ==
  IF class_ids = <<>> THEN <<>>
  ELSE LET class_id == Head(class_ids)
           objects ==
             IF class_id \in CategoryIds
               THEN SelectSeq(Label({p \in DOMAIN img : img[p] = class_id}, 1),
                              LAMBDA o : Cardinality(o) >= MinObjectPixels)
               ELSE <<>>
       IN [k \in DOMAIN objects |->
             [category_id  |-> class_id,
              segmentation |-> SubMaskSegmentation(objects[k])]]
            \o CreateAnnotations(img, Tail(class_ids))

\* ---- mask_utils.frPyObjects on a polygon: rleFrPoly of pycocotools
\* (maskApi.c).  The polygon is drawn on a grid FrPolyScale times finer;
\* every vertex is rounded to that grid, every edge is traced point by
\* point, and a run of the column-major encoding starts or ends wherever
\* the trace passes the middle of a pixel column.
FrPolyScale == 5

\* (int) of a quotient: C rounds toward zero
CInt(n, d) == IF n >= 0 THEN n \div d ELSE -((-n) \div d)

\* (int)(scale * xy + .5), for a coordinate in half pixels
Upsample(c2) == CInt(FrPolyScale * c2 + 1, 2)

\* The points u, v of the trace of one edge, first to last.  The code
\* traces an edge from its end with the smaller x (or y, for a steep edge)
\* whatever its direction, and reads the points in the edge's direction.
TracePoints(segment) ==
  LET xa == Upsample(segment[1][1])
      ya == Upsample(segment[1][2])
      xb == Upsample(segment[2][1])
      yb == Upsample(segment[2][2])
      dx == Abs(xb - xa)
      dy == Abs(yb - ya)
      flip == (dx >= dy /\ xa > xb) \/ (dx < dy /\ ya > yb)
      xs == IF flip THEN xb ELSE xa
      ys == IF flip THEN yb ELSE ya
      xe == IF flip THEN xa ELSE xb
      ye == IF flip THEN ya ELSE yb
      n  == Max(dx, dy)
      point(t) ==
        IF dx >= dy
          THEN <<xs + t, IF dx = 0 THEN ys
                         ELSE CInt(2 * dx * ys + 2 * (ye - ys) * t + dx, 2 * dx)>>
          ELSE <<CInt(2 * dy * xs + 2 * (xe - xs) * t + dy, 2 * dy), ys + t>>
  IN [d \in 1..(n + 1) |-> point(IF flip THEN n - (d - 1) ELSE d - 1)]

\* The position, in the column-major order of the mask, of the run
\* boundary between two successive points of the trace, None when the
\* trace does not pass the middle of a column of the image there.
RunBoundary(p, q, h, w) ==
  LET xd == IF q[1] < p[1] THEN q[1] ELSE q[1] - 1
      yd == IF q[2] < p[2] THEN q[2] ELSE p[2]
      \* ceil((yd + .5) / scale - .5), clipped to 0..h
      row == IF 2 * yd + 1 < FrPolyScale THEN 0
             ELSE Min(h, (2 * yd + 1 - FrPolyScale + 2 * FrPolyScale - 1)
                           \div (2 * FrPolyScale))
  IN IF /\ q[1] # p[1]
        /\ (2 * xd + 1 - FrPolyScale) % (2 * FrPolyScale) = 0
        /\ (2 * xd + 1 - FrPolyScale) \div (2 * FrPolyScale) \in 0..(w - 1)
       THEN Some(((2 * xd + 1 - FrPolyScale) \div (2 * FrPolyScale)) * h + row)
       ELSE None

\* The run boundaries of a ring, each with the place of the trace where it
\* arises: the runs alternate between 0 and 1 from one boundary to the next.
RunBoundaries(ring, h, w) ==
  {e \in UNION {{<<segment, d, RunBoundary(TracePoints(segment)[d],
                                            TracePoints(segment)[d + 1], h, w)>> :
                   d \in 1..(Len(TracePoints(segment)) - 1)} :
                segment \in ring.segments} : e[3] # None}

\* mask_utils.decode of the encoding of one ring: a pixel is 1 when an odd
\* number of run boundaries lie at or before it.
FrPolyMask(ring, h, w) ==
  LET boundaries == RunBoundaries(ring, h, w)
  IN [p \in Pixels(w, h) |->
        Cardinality({e \in boundaries : e[3][1] <= p[1] * h + p[2]}) % 2]

\* mask_utils.decode(mask_utils.merge(frPyObjects(rings, h, w)))
DecodeMergedRings(rings, h, w) ==
  LET masks == [k \in DOMAIN rings |-> FrPolyMask(rings[k], h, w)]
  IN [p \in Pixels(w, h) |->
        IF \E k \in DOMAIN masks : masks[k][p] = 1 THEN 1 ELSE 0]

\* create_segmentation_mask(segmentation, None, height, width), lines
\* 91-122.  determine_polygon_orientation of a traced contour: every
\* contour of find_contours winds the same way around the higher values,
\* so the contours around an object have the orientation outer_orientation
\* and those around enclosed background the other one.
CreateSegmentationMaskOfContours(segmentation, outer_orientation, img_height, img_width) ==
  IF Len(segmentation) = 0 THEN NoMask
  ELSE
    LET inferred == [k \in DOMAIN segmentation |->
                       IF segmentation[k].outer THEN outer_orientation
                                                ELSE 1 - outer_orientation]
        types == IF \A k \in DOMAIN inferred : inferred[k] # 1
                   THEN [inferred EXCEPT ![1] = 1] ELSE inferred
        typed == [k \in DOMAIN segmentation |-> <<segmentation[k], types[k]>>]
        rings(es) == [k \in DOMAIN es |-> es[k][1]]
        positive_segments == rings(SelectSeq(typed, LAMBDA e : e[2] = 1))
        hole_segments     == rings(SelectSeq(typed, LAMBDA e : e[2] = 0))
    IN IF Len(positive_segments) > 0
         THEN LET pos_mask == DecodeMergedRings(positive_segments, img_height,
                                                img_width)
              IN IF Len(hole_segments) > 0
                   THEN SubtractMasks(pos_mask,
                                      DecodeMergedRings(hole_segments, img_height,
                                                        img_width))
                   ELSE pos_mask
         ELSE NoMask

\* core.py lines 52-72, for the annotations of one image
RECURSIVE MaskFromContourAnnotations(_, _, _)
MaskFromContourAnnotations(m, annotations, outer_orientation) ==
  IF annotations = <<>> THEN m
  ELSE LET ann == Head(annotations)
           full_mask_tensor ==
             CreateSegmentationMaskOfContours(ann.segmentation, outer_orientation,
                                              ImgH, ImgW)
           painted ==
             IF Len(ann.segmentation) = 0 \/ ann.category_id = 0
                  \/ full_mask_tensor = NoMask
               THEN m
               ELSE [p \in DOMAIN m |->
                       IF full_mask_tensor[p] > 0 THEN ann.category_id ELSE m[p]]
       IN MaskFromContourAnnotations(painted, Tail(annotations), outer_orientation)

\* ---- the mask images: one or two blocks of MinObjectPixels pixels or
\* more that do not touch, each filled with the id of a category
Blocks ==
  {b \in {Rect(x1, x2, y1, y2) : x1 \in 0..(ImgW - 1), x2 \in 0..(ImgW - 1),
                                  y1 \in 0..(ImgH - 1), y2 \in 0..(ImgH - 1)} :
     Cardinality(b) >= MinObjectPixels}

Apart(b1, b2) ==
  \A p \in b1 : \A q \in b2 : Abs(p[1] - q[1]) > 1 \/ Abs(p[2] - q[2]) > 1

BlockMasks ==
  { Filled(<< <<b, a>> >>) : b \in Blocks, a \in CategoryIds }
  \cup
  { Filled(<< <<e[1], e[3]>>, <<e[2], e[4]>> >>) :
      e \in {f \in Blocks \X Blocks \X CategoryIds \X CategoryIds :
               Apart(f[1], f[2])} }

TripInit ==
  /\ tpc = "start"
  /\ t_img \in BlockMasks
  /\ t_annotations = <<>>
  /\ t_mask = NoMask

\* converter.py lines 131-163: _create_annotations
TripConvert ==
  /\ tpc = "start"
  /\ t_annotations' = CreateAnnotations(t_img, ClassIds(t_img))
  /\ tpc' = "converted"
  /\ UNCHANGED <<t_img, t_mask>>
  /\ UNCHANGED <<convVars, maskVars, reconVars, saveVars, rasterVars, ringVars,
                 mergeVars, extractVars, splitVars, catVars, healthVars,
                 bboxVars, reuseVars>>

\* core.py lines 50-72: _create_mask_from_annotations
TripReconstruct ==
  /\ tpc = "converted"
  /\ \E outer_orientation \in {0, 1} :
       t_mask' = MaskFromContourAnnotations(ZeroMask(ImgW, ImgH), t_annotations,
                                           outer_orientation)
  /\ tpc' = "rebuilt"
  /\ UNCHANGED <<t_img, t_annotations>>
  /\ UNCHANGED <<convVars, maskVars, reconVars, saveVars, rasterVars, ringVars,
                 mergeVars, extractVars, splitVars, catVars, healthVars,
                 bboxVars, reuseVars>>

TripIdle ==
  /\ tpc = "start"
  /\ t_img = ZeroMask(ImgW, ImgH)
  /\ t_annotations = <<>>
  /\ t_mask = NoMask

(***************************************************************************)
(*                          The specifications                             *)
(***************************************************************************)

Init ==
  /\ ConvInit /\ MaskIdle /\ ReconIdle /\ SaveIdle /\ RasterIdle /\ RingIdle
  /\ MergeIdle /\ ExtractIdle /\ SplitIdle /\ CatIdle /\ HealthIdle
  /\ BboxIdle /\ ReuseIdle /\ TripIdle
Next == FromMasks \/ SingleFileStep \/ SingleFileSave \/ PerFileStep \/ PerFileEnd
Spec == Init /\ [][Next]_vars

InitMask ==
  /\ MaskInit /\ ConvIdle /\ ReconIdle /\ SaveIdle /\ RasterIdle /\ RingIdle
  /\ MergeIdle /\ ExtractIdle /\ SplitIdle /\ CatIdle /\ HealthIdle
  /\ BboxIdle /\ ReuseIdle /\ TripIdle
NextMask == MaskStep \/ MaskReturn
SpecMask == InitMask /\ [][NextMask]_vars

InitRecon ==
  /\ ReconInit /\ ConvIdle /\ MaskIdle /\ SaveIdle /\ RasterIdle /\ RingIdle
  /\ MergeIdle /\ ExtractIdle /\ SplitIdle /\ CatIdle /\ HealthIdle
  /\ BboxIdle /\ ReuseIdle /\ TripIdle
NextRecon ==
  \/ FromCoco \/ SeqStep \/ SeqEnd
  \/ (\E i \in DOMAIN task : PoolStart(i))
  \/ (\E i \in DOMAIN task : PoolFinish(i))
  \/ PoolEnd
SpecRecon == InitRecon /\ [][NextRecon]_vars

InitSave ==
  /\ SaveInit /\ ConvIdle /\ MaskIdle /\ ReconIdle /\ RasterIdle /\ RingIdle
  /\ MergeIdle /\ ExtractIdle /\ SplitIdle /\ CatIdle /\ HealthIdle
  /\ BboxIdle /\ ReuseIdle /\ TripIdle
NextSave == Makedirs \/ Open \/ Dump \/ Close \/ Rename \/ Except \/ Crash
SpecSave == InitSave /\ [][NextSave]_vars

InitRaster ==
  /\ RasterInit /\ ConvIdle /\ MaskIdle /\ ReconIdle /\ SaveIdle /\ RingIdle
  /\ MergeIdle /\ ExtractIdle /\ SplitIdle /\ CatIdle /\ HealthIdle
  /\ BboxIdle /\ ReuseIdle /\ TripIdle
NextRaster == RasterCall \/ RasterPaint
SpecRaster == InitRaster /\ [][NextRaster]_vars

InitRing ==
  /\ RingInit /\ ConvIdle /\ MaskIdle /\ ReconIdle /\ SaveIdle /\ RasterIdle
  /\ MergeIdle /\ ExtractIdle /\ SplitIdle /\ CatIdle /\ HealthIdle
  /\ BboxIdle /\ ReuseIdle /\ TripIdle
NextRing ==
  \/ RingClassify \/ RingReverse \/ RingReverseAgain
  \/ RingReverseEach \/ RingReverseEachAgain
SpecRing == InitRing /\ [][NextRing]_vars

InitMerge ==
  /\ MergeInit /\ ConvIdle /\ MaskIdle /\ ReconIdle /\ SaveIdle
  /\ RasterIdle /\ RingIdle /\ ExtractIdle /\ SplitIdle /\ CatIdle
  /\ HealthIdle /\ BboxIdle /\ ReuseIdle /\ TripIdle
NextMerge ==
  \/ MergeValidate \/ MergeIdMaps \/ MergeImage \/ MergeImagesEnd
  \/ MergeAnnotation \/ MergeSave
SpecMerge == InitMerge /\ [][NextMerge]_vars

InitExtract ==
  /\ ExtractInit /\ ConvIdle /\ MaskIdle /\ ReconIdle /\ SaveIdle
  /\ RasterIdle /\ RingIdle /\ MergeIdle /\ SplitIdle /\ CatIdle
  /\ HealthIdle /\ BboxIdle /\ ReuseIdle /\ TripIdle
NextExtract ==
  \/ ExtractStart \/ ExtractSkipClass \/ ExtractLabel \/ ExtractSkipTiny
  \/ ExtractAnnotate \/ ExtractNextClass \/ ExtractReturn
SpecExtract == InitExtract /\ [][NextExtract]_vars

InitSplit ==
  /\ SplitInit /\ ConvIdle /\ MaskIdle /\ ReconIdle /\ SaveIdle
  /\ RasterIdle /\ RingIdle /\ MergeIdle /\ ExtractIdle /\ CatIdle
  /\ HealthIdle /\ BboxIdle /\ ReuseIdle /\ TripIdle
NextSplit == SplitLoad \/ SplitImage \/ SplitReturn
SpecSplit == InitSplit /\ [][NextSplit]_vars

InitCat ==
  /\ CatInit /\ ConvIdle /\ MaskIdle /\ ReconIdle /\ SaveIdle /\ RasterIdle
  /\ RingIdle /\ MergeIdle /\ ExtractIdle /\ SplitIdle /\ HealthIdle
  /\ BboxIdle /\ ReuseIdle /\ TripIdle
NextCat == CatOpen \/ CatEntry \/ CatReturn
SpecCat == InitCat /\ [][NextCat]_vars

InitHealth ==
  /\ HealthInit /\ ConvIdle /\ MaskIdle /\ ReconIdle /\ SaveIdle
  /\ RasterIdle /\ RingIdle /\ MergeIdle /\ ExtractIdle /\ SplitIdle
  /\ CatIdle /\ BboxIdle /\ ReuseIdle /\ TripIdle
NextHealth == HealthConstruct \/ RunAllChecks
SpecHealth == InitHealth /\ [][NextHealth]_vars

InitBbox ==
  /\ BboxInit /\ ConvIdle /\ MaskIdle /\ ReconIdle /\ SaveIdle /\ RasterIdle
  /\ RingIdle /\ MergeIdle /\ ExtractIdle /\ SplitIdle /\ CatIdle
  /\ HealthIdle /\ ReuseIdle /\ TripIdle
NextBbox == BboxCall
SpecBbox == InitBbox /\ [][NextBbox]_vars

InitReuse ==
  /\ ReuseInit /\ MaskIdle /\ ReconIdle /\ SaveIdle /\ RasterIdle
  /\ RingIdle /\ MergeIdle /\ ExtractIdle /\ SplitIdle /\ CatIdle
  /\ HealthIdle /\ BboxIdle /\ TripIdle
NextReuse ==
  \/ FromMasks \/ SingleFileStep \/ SingleFileSave \/ PerFileStep \/ PerFileEnd
  \/ FromMasksAgain
SpecReuse == InitReuse /\ [][NextReuse]_vars

InitTrip ==
  /\ ConvIdle /\ MaskIdle /\ ReconIdle /\ SaveIdle /\ RasterIdle
  /\ RingIdle /\ MergeIdle /\ ExtractIdle /\ SplitIdle /\ CatIdle
  /\ HealthIdle /\ BboxIdle /\ ReuseIdle /\ TripInit
NextTrip == TripConvert \/ TripReconstruct
SpecTrip == InitTrip /\ [][NextTrip]_vars

(***************************************************************************)
(*                              The claims                                 *)
(***************************************************************************)

\* ---- helpers of the claims about from_masks

\* A component for which extraction is to emit an annotation.
Emits(c) == c.class_id \in CategoryIds /\ c.pixels >= MinObjectPixels /\ c.valid

\* Its category ids, in the order of the components.
EmittedCategories(f) ==
  IF Raises(f) THEN <<>>
  ELSE LET kept == SelectSeq(f.comps, Emits)
       IN [k \in DOMAIN kept |-> kept[k].class_id]

\* The mask files that were converted, by position in the batch.
Converted == {i \in DOMAIN tiff_files : ~Raises(tiff_files[i])}
Failed    == {i \in DOMAIN tiff_files : Raises(tiff_files[i])}

RECURSIVE EmittedTotal(_)
EmittedTotal(files) ==
  IF files = <<>> THEN 0
  ELSE Len(EmittedCategories(Head(files))) + EmittedTotal(Tail(files))

ConsolidatedDone == pc = "done" /\ ~per_file /\ n_files > 0
PerFileDone      == pc = "done" /\ per_file /\ n_files > 0

\* The annotations of one image in a dataset, in array order.
AnnotationsOfImage(d, image_id) ==
  SelectSeq(d.annotations, LAMBDA a : a.image_id = image_id)

\* C1: in consolidated mode the annotations array of the written dataset
\* carries the ids 1, 2, ..., K in array order, K being the number of
\* components that emit an annotation in the images that did not fail; the
\* annotations of one image form one contiguous block.
C1_ConsolidatedIds ==
  ConsolidatedDone =>
    LET anns == written[0].annotations IN
      /\ Len(anns) = EmittedTotal(tiff_files)
      /\ \A k \in DOMAIN anns : anns[k].id = k
      /\ \A a, b, c \in DOMAIN anns :
           (a < b /\ b < c /\ anns[a].image_id = anns[c].image_id)
             => anns[b].image_id = anns[a].image_id

\* A consolidated run in which an image failed, a later image had a
\* component that emits nothing before one that emits, and ids were assigned.
C1_Witness ==
  /\ ConsolidatedDone
  /\ Failed # {}
  /\ \E i \in Converted : \E k \in DOMAIN tiff_files[i].comps :
       /\ i > 1 /\ i - 1 \in Failed
       /\ ~Emits(tiff_files[i].comps[k])
       /\ \E l \in DOMAIN tiff_files[i].comps : l > k /\ Emits(tiff_files[i].comps[l])
  /\ Len(written[0].annotations) >= 1

\* C4: in every dataset written by from_masks each annotation's image_id is
\* the id of an image of that dataset and its category_id is the id of a
\* category of that dataset.
C4_ReferencesResolve ==
  \A p \in OutPaths :
    written[p] # NoFile =>
      \A k \in DOMAIN written[p].annotations :
        /\ \E j \in DOMAIN written[p].images :
             written[p].images[j].id = written[p].annotations[k].image_id
        /\ written[p].annotations[k].category_id \in written[p].categories

\* A written dataset with annotations, from a batch with a failed image and
\* a mask that holds a pixel value outside the category table.
C4_Witness ==
  /\ pc = "done"
  /\ Failed # {}
  /\ \E i \in Converted : \E k \in DOMAIN tiff_files[i].comps :
       tiff_files[i].comps[k].class_id \notin CategoryIds
  /\ \E p \in OutPaths : written[p] # NoFile /\ written[p].annotations # <<>>

\* The image records of a dataset, as the batch positions of their files.
FileNamesOf(d) == [j \in DOMAIN d.images |-> d.images[j].file_name]

\* C7: when a mask file of a batch cannot be read or processed, no output
\* holds an image record or an annotation of it, every other file is
\* processed, in order, and the output for them is written.
C7_FailedImageSkipped ==
  /\ ConsolidatedDone =>
       /\ written[0] # NoFile
       /\ LET names == FileNamesOf(written[0]) IN
            /\ {names[j] : j \in DOMAIN names} = Converted
            /\ \A a, b \in DOMAIN names : a < b => names[a] < names[b]
       /\ \A i \in Failed : AnnotationsOfImage(written[0], i) = <<>>
       /\ \A i \in Converted :
            LET got == AnnotationsOfImage(written[0], i) IN
              [k \in DOMAIN got |-> got[k].category_id]
                = EmittedCategories(tiff_files[i])
  /\ PerFileDone =>
       /\ \A i \in Failed :
            \A p \in OutPaths :
              written[p] # NoFile =>
                \A j \in DOMAIN written[p].images :
                  written[p].images[j].file_name # i
       /\ \A i \in Converted :
            /\ written[i] # NoFile
            /\ FileNamesOf(written[i]) = <<i>>
            /\ [k \in DOMAIN written[i].annotations |->
                  written[i].annotations[k].category_id]
                 = EmittedCategories(tiff_files[i])

\* A finished batch whose first file failed and whose second file was
\* converted with an annotation.
C7_Witness ==
  /\ pc = "done"
  /\ 1 \in Failed
  /\ 2 \in Converted
  /\ EmittedCategories(tiff_files[2]) # <<>>
  /\ log = <<1>>

\* C9: the count of processed images reported at the end of a batch is the
\* number of images converted.
C9_ReportedCount ==
  (pc = "done" /\ n_files > 0) => reported = <<Cardinality(Converted)>>

Loads(f) == f.readable /\ f.ndim = 2

HasUnknownValue(f) == \E k \in DOMAIN f.comps : f.comps[k].class_id \notin CategoryIds

\* The annotations of category c that a dataset holds for an image.
CountAnnotations(d, image_id, c) ==
  Len(SelectSeq(d.annotations,
                LAMBDA a : a.image_id = image_id /\ a.category_id = c))

\* The components of pixel value c of a mask that are large enough and
\* yield a polygon.
CountComponents(f, c) ==
  Len(SelectSeq(f.comps,
                LAMBDA k : k.class_id = c /\ k.pixels >= MinObjectPixels /\ k.valid))

\* C11: for a mask that holds a nonzero pixel value outside the category
\* table, extraction emits no annotation of that value and logs no error for
\* the file, and every component of a known category in the same mask has
\* its annotation.
C11_UnknownValuesSkipped ==
  \A i \in DOMAIN tiff_files :
    (Loads(tiff_files[i]) /\ HasUnknownValue(tiff_files[i])) =>
      /\ \A j \in DOMAIN log : log[j] # i
      /\ IF per_file
           THEN /\ written[i] # NoFile
                /\ \A c \in PixelValues :
                     CountAnnotations(written[i], 1, c) =
                       IF c \in CategoryIds
                         THEN CountComponents(tiff_files[i], c) ELSE 0
           ELSE /\ \A c \in PixelValues :
                     CountAnnotations(coco_data, i, c) =
                       IF c \in CategoryIds
                         THEN CountComponents(tiff_files[i], c) ELSE 0
                /\ pc = "done" => written[0] = coco_data

\* A finished batch with a mask that holds a component of a known category
\* and a component of a value outside the table.
C11_Witness ==
  /\ pc = "done"
  /\ \E i \in DOMAIN tiff_files :
       /\ Loads(tiff_files[i]) /\ HasUnknownValue(tiff_files[i])
       /\ \E c \in CategoryIds : CountComponents(tiff_files[i], c) > 0
       /\ \E p \in OutPaths : written[p] # NoFile /\ written[p].annotations # <<>>

\* ---- helpers of the claims about reconstruction

\* The rasterized mask of every annotation of the array (NoMask for one
\* that is not rasterized).
RECURSIVE RastersOf(_)
RastersOf(anns) ==
  IF anns = <<>> THEN <<>>
  ELSE <<FullMaskOf(Head(anns), GridH, GridW)>> \o RastersOf(Tail(anns))

Rasters == RastersOf(m_anns)

\* The positions, in the annotations array, of the annotations of the image
\* whose rasterized mask covers pixel p.
Covering(rasters, p) ==
  {k \in DOMAIN m_anns :
     m_anns[k].image_id = m_image /\ rasters[k] # NoMask /\ rasters[k][p] > 0}

Last(S) == CHOOSE k \in S : \A j \in S : j <= k

CoveredBy(segmentation, kind, p) ==
  \E k \in DOMAIN segmentation :
    /\ InferTypes(segmentation)[k] = kind
    /\ RingCovers(segmentation[k], p[1], p[2])

\* The annotations that carry a category and at least one ring; category_id
\* 0 stands for 0 and for a missing key, the empty segmentation for [] and
\* for a missing key.
Paintable(annotations) ==
  SelectSeq(annotations, LAMBDA a : a.category_id # 0 /\ a.segmentation # <<>>)

RECURSIVE PaintInOrder(_, _)
PaintInOrder(m, annotations) ==
  IF annotations = <<>> THEN m
  ELSE PaintInOrder(
         PaintMask(m, CreateSegmentationMask(Head(annotations).segmentation, None,
                                             GridH, GridW),
                   Head(annotations).category_id),
         Tail(annotations))

\* C30: an annotation without a category (category_id 0 or missing) or
\* without rings (segmentation empty or missing) leaves the mask as it was,
\* and the annotations after it are applied as before: at every point of
\* the loop the mask is what the other annotations processed so far paint,
\* in their order, on a mask of zeros.
C30_DegenerateAnnotationsSkipped ==
  mpc \in {"loop", "done"} =>
    mask = PaintInOrder(ZeroMask(GridW, GridH),
                        Paintable(SubSeq(AnnotationsOf(m_anns, m_image), 1, m_k - 1)))

\* The first annotation of the image has rings and category_id 0, the
\* second has been applied after it and has painted pixels.
C30_Witness ==
  /\ mpc = "loop"
  /\ m_k = 3
  /\ AnnotationsOf(m_anns, m_image)[1].category_id = 0
  /\ AnnotationsOf(m_anns, m_image)[1].segmentation # <<>>
  /\ AnnotationsOf(m_anns, m_image)[2].category_id # 0
  /\ \E p \in Pixels(GridW, GridH) :
       /\ mask[p] = AnnotationsOf(m_anns, m_image)[2].category_id
       /\ \E k \in DOMAIN AnnotationsOf(m_anns, m_image)[1].segmentation :
            RingCovers(AnnotationsOf(m_anns, m_image)[1].segmentation[k], p[1], p[2])

\* C3: the mask create_segmentation_mask returns holds only 0 and 1, and is
\* 0 at a pixel that a hole ring covers and no positive ring covers (the
\* reconstructor paints the pixels where it is nonzero).
C3_HoleSubtractionClamped ==
  (m_k > 1 /\ full_mask # NoMask) =>
    LET seg == AnnotationsOf(m_anns, m_image)[m_k - 1].segmentation IN
      \A p \in Pixels(GridW, GridH) :
        /\ full_mask[p] \in {0, 1}
        /\ (CoveredBy(seg, 0, p) /\ ~CoveredBy(seg, 1, p)) => full_mask[p] = 0

\* ---- helpers of the claims about create_segmentation_mask

Covers(ring, p) == RingCovers(ring, p[1], p[2])

NoRingPositive(segmentation) ==
  \A k \in DOMAIN segmentation : DeterminePolygonOrientation(segmentation[k]) = 0

\* C12: with inferred orientations (segmentation_types is None) a non-empty
\* ring list never yields "no mask"; when no ring classifies as positive the
\* first ring is rasterized as positive and the others as holes: a pixel of
\* the first ring is 1 when no other ring covers it and 0 when one does.
C12_FirstRingForcedPositive ==
  (gpc # "call" /\ g_types = None /\ g_seg # <<>>) =>
    /\ g_result # NoMask
    /\ NoRingPositive(g_seg) =>
         \A p \in Pixels(CanvasW, CanvasH) :
           LET first == Covers(g_seg[1], p)
               other == \E k \in DOMAIN g_seg : k > 1 /\ Covers(g_seg[k], p)
           IN /\ (first /\ ~other) => g_result[p] = 1
              /\ (first /\ other) => g_result[p] = 0
              /\ (~first /\ ~other) => g_result[p] = 0

\* Two counter-clockwise rings, the second inside the first, rasterized with
\* inferred orientations: a ring of 1s around a 0.
C12_Witness ==
  /\ gpc = "returned" /\ g_types = None
  /\ Len(g_seg) = 2 /\ NoRingPositive(g_seg)
  /\ g_result # NoMask
  /\ \E p, q \in Pixels(CanvasW, CanvasH) :
       /\ Covers(g_seg[1], p) /\ ~Covers(g_seg[2], p) /\ g_result[p] = 1
       /\ Covers(g_seg[1], q) /\ Covers(g_seg[2], q) /\ g_result[q] = 0

\* One explicit orientation per ring, none of them positive.
ExplicitAllHoles ==
  /\ g_types # None /\ g_seg # <<>>
  /\ Len(g_types[1]) = Len(g_seg)
  /\ \A k \in DOMAIN g_types[1] : g_types[1][k] # 1

\* C29: when orientations are given and their number is not the number of
\* rings (none at all included), create_segmentation_mask returns a mask
\* that is 1 at every pixel some ring covers and 0 elsewhere: no ring is
\* subtracted, whatever its orientation and whatever the list says.
C29_MismatchedTypesUnion ==
  (gpc # "call" /\ g_seg # <<>> /\ g_types # None /\ Len(g_types[1]) # Len(g_seg)) =>
    /\ g_result # NoMask
    /\ \A p \in Pixels(CanvasW, CanvasH) :
         g_result[p] = IF \E k \in DOMAIN g_seg : Covers(g_seg[k], p) THEN 1 ELSE 0

\* Two rings, the second counter-clockwise and inside the first, with a
\* single orientation, 0: the pixels of the inner ring are 1.
C29_Witness ==
  /\ gpc = "returned"
  /\ Len(g_seg) = 2
  /\ g_types = Some(<<0>>)
  /\ DeterminePolygonOrientation(g_seg[1]) = 1
  /\ DeterminePolygonOrientation(g_seg[2]) = 0
  /\ g_result # NoMask
  /\ \E p \in Pixels(CanvasW, CanvasH) :
       Covers(g_seg[1], p) /\ Covers(g_seg[2], p) /\ g_result[p] = 1

\* C13: with one explicit orientation per ring and none of them positive,
\* create_segmentation_mask returns None, not a mask of zeros, and the
\* caller's mask after the annotation is the mask before it.
C13_NoPositiveRingNoMask ==
  ExplicitAllHoles =>
    /\ gpc # "call" => g_result = NoMask
    /\ gpc = "painted" => g_canvas = g_before

\* The caller has gone past an annotation of two rings given as holes, on a
\* mask that was already painted.
C13_Witness ==
  /\ ExplicitAllHoles /\ Len(g_seg) = 2
  /\ gpc = "painted"
  /\ \E p \in Pixels(CanvasW, CanvasH) : g_before[p] # 0 /\ g_before[p] # g_category
  /\ g_canvas = g_before

\* The orientations create_segmentation_mask works with.
EffectiveTypes ==
  IF g_types = None
    THEN [k \in DOMAIN g_seg |-> DeterminePolygonOrientation(g_seg[k])]
    ELSE g_types[1]

\* Two rings, one positive and one hole, the hole inside the positive ring
\* and the positive ring not filling the image.
IsAnnulus(outer, hole) ==
  /\ Len(g_seg) = 2 /\ {outer, hole} = {1, 2}
  /\ Len(EffectiveTypes) = 2
  /\ EffectiveTypes[outer] = 1 /\ EffectiveTypes[hole] = 0
  /\ \A p \in Pixels(CanvasW, CanvasH) : Covers(g_seg[hole], p) => Covers(g_seg[outer], p)

\* C14: for a positive outer ring and a hole ring inside it the mask is 0 at
\* every pixel of the hole, nonzero at every pixel between the hole and the
\* outer ring, and 0 at every pixel outside the outer ring.
C14_AnnulusRasterized ==
  \A outer, hole \in {1, 2} :
    (gpc # "call" /\ IsAnnulus(outer, hole)) =>
      /\ g_result # NoMask
      /\ \A p \in Pixels(CanvasW, CanvasH) :
           /\ Covers(g_seg[hole], p) => g_result[p] = 0
           /\ (Covers(g_seg[outer], p) /\ ~Covers(g_seg[hole], p)) => g_result[p] # 0
           /\ ~Covers(g_seg[outer], p) => g_result[p] = 0

\* An annulus whose mask has all three kinds of pixel, with orientations
\* given as [1, 0] for two rings of the same winding.
C14_Witness ==
  /\ gpc = "returned" /\ g_types = Some(<<1, 0>>)
  /\ IsAnnulus(1, 2)
  /\ DeterminePolygonOrientation(g_seg[2]) = 1
  /\ \E p, q, r \in Pixels(CanvasW, CanvasH) :
       /\ Covers(g_seg[2], p) /\ g_result[p] = 0
       /\ Covers(g_seg[1], q) /\ ~Covers(g_seg[2], q) /\ g_result[q] = 1
       /\ ~Covers(g_seg[1], r) /\ g_result[r] = 0

\* ---- helpers of the claims about ring orientation

\* The sum over the consecutive vertex pairs (i, i+1), the last pair being
\* (n, 1), of x_i * y_(i+1) - y_i * x_(i+1), for the pairs in S.
RECURSIVE PairSum(_, _)
PairSum(ring, S) ==
  IF S = {} THEN 0
  ELSE LET i == CHOOSE k \in S : TRUE
           j == (i % NPoints(ring)) + 1
       IN ring[2 * i - 1] * ring[2 * j] - ring[2 * i] * ring[2 * j - 1]
            + PairSum(ring, S \ {i})

SignedSum(ring) == PairSum(ring, 1..NPoints(ring))

\* C17: determine_polygon_orientation returns 1 exactly when the ring has
\* fewer than 3 points or its shoelace sum is negative, and 0 otherwise,
\* also for a ring of 3 or more points whose shoelace sum is 0.
C17_OrientationBySignedSum ==
  o_orientation # <<>> =>
    /\ o_orientation[1] \in {0, 1}
    /\ o_orientation[1] = 1 <=> (NPoints(o_polygon) < 3 \/ SignedSum(o_polygon) < 0)
    /\ (NPoints(o_polygon) >= 3 /\ SignedSum(o_polygon) = 0) => o_orientation[1] = 0

\* The clockwise square of test_orientation_clockwise has been classified.
C17_Witness ==
  /\ o_orientation # <<>>
  /\ o_polygon = <<0, 0, 0, 1, 1, 1, 1, 0>>
  /\ SignedSum(o_polygon) < 0
  /\ o_orientation[1] = 1

\* C18 as stated: for every ring of at least 3 points the orientation of the
\* reversed ring differs from the orientation of the ring.
C18_ReversalFlips ==
  (Len(o_orientation) >= 2 /\ NPoints(o_polygon) >= 3) =>
    o_orientation[2] # o_orientation[1]

\* C18 as amended: a ring of at least 3 points classified 1 is classified 0
\* after reversal; one classified 0 is classified 1 after reversal when its
\* shoelace sum is not 0, and 0 again when the sum is 0.
C18_ReversalFlipsNonzero ==
  (Len(o_orientation) >= 2 /\ NPoints(o_polygon) >= 3) =>
    /\ o_orientation[1] = 1 => o_orientation[2] = 0
    /\ (o_orientation[1] = 0 /\ SignedSum(o_polygon) # 0) => o_orientation[2] = 1
    /\ SignedSum(o_polygon) = 0 => (o_orientation[1] = 0 /\ o_orientation[2] = 0)

\* A counter-clockwise triangle was reversed and is classified 1 afterwards.
C18_Witness ==
  /\ Len(o_orientation) >= 2 /\ NPoints(o_polygon) = 3
  /\ SignedSum(o_polygon) > 0
  /\ o_reversed # None /\ o_reversed[1] # o_polygon
  /\ o_orientation[1] = 0 /\ o_orientation[2] = 1

\* C19: reverse_orientation applied twice, to a flat ring or to a list of
\* rings, returns the value it started from, so the orientation of a doubly
\* reversed ring is that of the ring.
C19_ReverseInvolution ==
  opc = "done" =>
    /\ o_twice # None
    /\ o_twice[1] = (IF o_orientation # <<>> THEN o_polygon ELSE o_polygons)
    /\ (o_orientation # <<>> /\ NPoints(o_polygon) >= 3)
         => o_orientation[3] = o_orientation[1]

\* A square was reversed twice, and so was a list of two rings one of which
\* is long enough to be reversed; the single reversal changed the value.
C19_Witness ==
  /\ opc = "done"
  /\ o_reversed # None /\ o_twice # None
  /\ \/ /\ NPoints(o_polygon) = 4 /\ o_reversed[1] # o_polygon
        /\ o_twice[1] = o_polygon
     \/ /\ Len(o_polygons) = 2 /\ o_reversed[1] # o_polygons
        /\ o_twice[1] = o_polygons

\* ---- helpers of the claims about merge_files

DistinctIds(records) ==
  \A a, b \in DOMAIN records : a # b => records[a].id # records[b].id

\* C20: after merge_files has written its output for two datasets with
\* unique non-negative ids, the output holds the records of file 1 unchanged,
\* followed by every record of file 2; image ids are pairwise distinct and
\* so are annotation ids; every annotation of file 2 names the new id of the
\* image it named before.
C20_MergeKeepsIdsDistinct ==
  jpc = "done" =>
    LET n_img == Len(j_coco1.images)
        n_ann == Len(j_coco1.annotations)
    IN /\ Len(j_out.images) = n_img + Len(j_coco2.images)
       /\ Len(j_out.annotations) = n_ann + Len(j_coco2.annotations)
       /\ \A k \in DOMAIN j_coco1.images : j_out.images[k] = j_coco1.images[k]
       /\ \A k \in DOMAIN j_coco1.annotations :
            j_out.annotations[k] = j_coco1.annotations[k]
       /\ \A k \in DOMAIN j_coco2.images :
            j_out.images[n_img + k].rest = j_coco2.images[k].rest
       /\ \A k \in DOMAIN j_coco2.annotations :
            j_out.annotations[n_ann + k].rest = j_coco2.annotations[k].rest
       /\ DistinctIds(j_out.images)
       /\ DistinctIds(j_out.annotations)
       /\ \A k \in DOMAIN j_coco2.annotations :
            \E j \in DOMAIN j_coco2.images :
              /\ j_coco2.images[j].id = j_coco2.annotations[k].image_id
              /\ j_out.annotations[n_ann + k].image_id = j_out.images[n_img + j].id

\* A merge has been written in which both files use the same image ids and
\* annotation ids, and two annotations of file 2 name different images.
C20_Witness ==
  /\ jpc = "done"
  /\ Len(j_coco1.images) = 2 /\ Len(j_coco2.images) = 2
  /\ Len(j_coco1.annotations) = 2 /\ Len(j_coco2.annotations) = 2
  /\ j_coco2.annotations[1].image_id # j_coco2.annotations[2].image_id
  /\ j_out.images[3].id # j_coco2.images[1].id

\* ---- helpers of the claims about extraction from the pixels

RECURSIVE RingAreas(_, _)
RingAreas(segmentation, outer) ==
  IF segmentation = <<>> THEN 0
  ELSE (IF Head(segmentation).outer = outer THEN Head(segmentation).area ELSE 0)
         + RingAreas(Tail(segmentation), outer)

NamesOf(cats) == {cats[k].name : k \in DOMAIN cats}
NamedIds(cats) == {<<cats[k].name, cats[k].id>> : k \in DOMAIN cats}
SharedNameDiffers(cats1, cats2) ==
  \E k \in DOMAIN cats1, l \in DOMAIN cats2 :
    cats1[k].name = cats2[l].name /\ cats1[k].id # cats2[l].id

DanglingReference(coco) ==
  \E k \in DOMAIN coco.annotations :
    \A l \in DOMAIN coco.images : coco.images[l].id # coco.annotations[k].image_id

\* C28: a merge whose second file holds an annotation naming an image id
\* that none of its images has, the categories being compatible, does not
\* raise: it runs to the end and writes the merged dataset.
C28_DanglingReferenceMerged ==
  /\ DanglingReference(j_coco2)
  /\ NamedIds(j_coco1.categories) = NamedIds(j_coco2.categories)
  => /\ jpc # "raised"
     /\ jpc = "done" => j_out # NoFile

\* The positions of the annotations of an image, and the n-th of them.
PositionsFor(annotations, image_id) ==
  {k \in DOMAIN annotations : annotations[k].image_id = image_id}
NthOf(S, n) == CHOOSE k \in S : Cardinality({m \in S : m <= k}) = n

C23_CategoriesValidated ==
  cpc = "done" =>
    /\ \A k \in DOMAIN c_categories :
         /\ c_categories[k].id # None
         /\ c_categories[k].name # None
         /\ \A l \in DOMAIN c_categories :
              k # l => /\ c_categories[k].id # c_categories[l].id
                       /\ c_categories[k].name # c_categories[l].name
    /\ DOMAIN c_id_to_name = {c_categories[k].id[1] : k \in DOMAIN c_categories}
    /\ DOMAIN c_name_to_id = {c_categories[k].name[1] : k \in DOMAIN c_categories}
    /\ \A k \in DOMAIN c_categories :
         c_id_to_name[c_categories[k].id[1]] = c_categories[k].name[1]
    /\ \A i \in DOMAIN c_id_to_name : c_name_to_id[c_id_to_name[i]] = i
    /\ \A n \in DOMAIN c_name_to_id : c_id_to_name[c_name_to_id[n]] = n

\* A manager of two categories has been constructed.
C23_Witness ==
  /\ cpc = "done"
  /\ Len(c_categories) = 2

IsOrphaned(coco, k) ==
  \A l \in DOMAIN coco.images : coco.images[l].id # coco.annotations[k].image_id
IsUndefined(coco, c) ==
  /\ \E k \in DOMAIN coco.annotations : coco.annotations[k].category_id = c
  /\ \A l \in DOMAIN coco.categories : coco.categories[l].id # c

\* C24: run_all_checks returns for every dataset, also one with dangling
\* references; orphaned_ids lists, once each, the ids of exactly the
\* annotations whose image_id is the id of no image, and count is their
\* number; undefined_categories holds exactly the category ids that an
\* annotation uses and no category defines, and undefined_count is their
\* number.
C24_HealthReportsDefects ==
  /\ hpc \in {"construct", "constructed", "done"}
  /\ hpc = "done" =>
       LET orphaned == h_results.orphaned_annotations
           categories == h_results.orphaned_categories
       IN /\ \A k \in DOMAIN h_coco.annotations :
               IsOrphaned(h_coco, k) <=>
                 \E n \in DOMAIN orphaned.orphaned_ids :
                   orphaned.orphaned_ids[n] = h_coco.annotations[k].id
          /\ orphaned.count =
               Cardinality({k \in DOMAIN h_coco.annotations : IsOrphaned(h_coco, k)})
          /\ Len(orphaned.orphaned_ids) = orphaned.count
          /\ \A c \in 1..3 :
               c \in categories.undefined_categories <=> IsUndefined(h_coco, c)
          /\ categories.undefined_categories \subseteq 1..3
          /\ categories.undefined_count =
               Cardinality({c \in 1..3 : IsUndefined(h_coco, c)})

\* The check has returned for a dataset in which one annotation is orphaned
\* and another is not, and in which a category id is used but not defined.
C24_Witness ==
  /\ hpc = "done"
  /\ h_results.orphaned_annotations.count = 1
  /\ Len(h_coco.annotations) = 2
  /\ h_results.orphaned_categories.undefined_count = 1
  /\ h_coco.images # <<>>

\* The vertices of the polygons of the list that are valid and not empty.
CountedVertices(polygons) ==
  UNION { {polygons[k][n] : n \in DOMAIN polygons[k]} :
            k \in {l \in DOMAIN polygons : IsValid(polygons[l]) /\ polygons[l] # <<>>} }

\* C25: bbox_from_polygons returns [0, 0, 0, 0] when no polygon of the list
\* is valid and non-empty; else it returns the least x and the least y of
\* the vertices of the valid non-empty polygons and the extent of these
\* vertices in x and in y, neither of them negative.
C25_BboxOverValidVertices ==
  bpc = "returned" =>
    LET V == CountedVertices(b_polygons)
        bbox == b_bbox[1]
    IN IF V = {} THEN bbox = <<0, 0, 0, 0>>
       ELSE /\ \E v \in V : v[1] = bbox[1]
            /\ \E v \in V : v[2] = bbox[2]
            /\ \E v \in V : v[1] = bbox[1] + bbox[3]
            /\ \E v \in V : v[2] = bbox[2] + bbox[4]
            /\ \A v \in V : /\ bbox[1] <= v[1] /\ v[1] <= bbox[1] + bbox[3]
                            /\ bbox[2] <= v[2] /\ v[2] <= bbox[2] + bbox[4]
            /\ bbox[3] >= 0
            /\ bbox[4] >= 0

\* The box of a list that holds two valid polygons, a self-crossing one
\* that reaches beyond them, and none that is empty.
C25_Witness ==
  /\ bpc = "returned"
  /\ Len(b_polygons) = 3
  /\ \E k \in DOMAIN b_polygons : b_polygons[k] = Bowtie
  /\ Len(ValidPolygons(b_polygons)) = 2
  /\ b_bbox[1] = <<1, 0, 3, 3>>

\* C27: whatever from_masks calls were made before on the converter, the
\* consolidated dataset at output_file, once written, has no two images of
\* one id and no two annotations of one id.
C27_ReuseKeepsIdsDistinct ==
  written[0] # NoFile =>
    /\ DistinctIds(written[0].images)
    /\ DistinctIds(written[0].annotations)

\* C15: the area of every annotation is the area of its outer (positive)
\* rings minus the area of its hole rings, and not below 0.
C15_AreaSubtractsHoles ==
  \A k \in DOMAIN x_annotations :
    x_annotations[k].area =
      Max(0, RingAreas(x_annotations[k].segmentation, TRUE)
               - RingAreas(x_annotations[k].segmentation, FALSE))

\* The pixels that share an edge with p.
EdgeNeighbours(p) ==
  { <<p[1] - 1, p[2]>>, <<p[1] + 1, p[2]>>, <<p[1], p[2] - 1>>, <<p[1], p[2] + 1>> }

\* The pixels of the value of R that a path of edge-sharing pixels of that
\* value joins to R.
RECURSIVE Spread(_, _, _)
Spread(img, v, R) ==
  LET more == {q \in DOMAIN img : img[q] = v /\ q \notin R /\ EdgeNeighbours(q) \cap R # {}}
  IN IF more = {} THEN R ELSE Spread(img, v, R \cup more)

\* The 4-connected components, of 10 pixels or more, of the categories of
\* the table.
LargeComponents(img) ==
  { R \in { Spread(img, img[p], {p}) : p \in {q \in DOMAIN img : img[q] \in CategoryIds} } :
      Cardinality(R) >= MinObjectPixels }

\* The box around a set of pixels, [x, y, width, height] in half pixels.
BoxAround(R) ==
  LET x1 == CHOOSE v \in {p[1] : p \in R} : \A p \in R : v <= p[1]
      x2 == CHOOSE v \in {p[1] : p \in R} : \A p \in R : v >= p[1]
      y1 == CHOOSE v \in {p[2] : p \in R} : \A p \in R : v <= p[2]
      y2 == CHOOSE v \in {p[2] : p \in R} : \A p \in R : v >= p[2]
  IN <<2 * x1 - 1, 2 * y1 - 1, 2 * (x2 - x1 + 1), 2 * (y2 - y1 + 1)>>

\* C16: extraction emits one annotation for each 4-connected component of
\* one category of the table that has 10 pixels or more, and none for
\* anything else; regions of one category that touch only at a corner or not
\* at all have annotations of their own, each with the box of its own pixels
\* and an area.
C16_OneAnnotationPerComponent ==
  xpc = "done" =>
    /\ Len(x_annotations) = Cardinality(LargeComponents(x_img))
    /\ {x_sub_masks[k] : k \in DOMAIN x_sub_masks} = LargeComponents(x_img)
    /\ \A k \in DOMAIN x_annotations :
         /\ x_annotations[k].id = k
         /\ \A p \in x_sub_masks[k] : x_img[p] = x_annotations[k].category_id
         /\ x_annotations[k].bbox = BoxAround(x_sub_masks[k])
         /\ x_annotations[k].area > 0

\* Two blocks of 10 pixels of one category that touch at a corner have an
\* annotation each, and a lone pixel of that category has none.
C16_Witness ==
  /\ xpc = "done"
  /\ Len(x_annotations) = 2
  /\ x_annotations[1].category_id = x_annotations[2].category_id
  /\ x_annotations[1].bbox # x_annotations[2].bbox
  /\ \E p \in x_sub_masks[1], q \in x_sub_masks[2] :
       Abs(p[1] - q[1]) = 1 /\ Abs(p[2] - q[2]) = 1
  /\ \E p \in DOMAIN x_img :
       /\ x_img[p] = x_annotations[1].category_id
       /\ p \notin x_sub_masks[1] \cup x_sub_masks[2]

\* The output of sequential reconstruction from image i on: the loop of
\* lines 33-34.
RECURSIVE SequentialOutput(_, _)
SequentialOutput(files, i) ==
  IF i > Len(r_images) THEN files
  ELSE IF ImageRaises(r_images[i]) THEN files
  ELSE SequentialOutput(WriteMask(files, r_images[i], r_anns), i + 1)

ReconEnded == rpc \in {"done", "raised"}

\* C5: the mask files written, and the content of each, are those of
\* sequential reconstruction, whatever the worker count and the order in
\* which the workers finish.
C5_OutputIndependentOfWorkers ==
  ReconEnded =>
    out_files = SequentialOutput([f \in FileNames |-> NoFile], 1)

\* C8: a failure while processing one image does not abort the run, and
\* every other image is still processed.
C8_FailureNeverAborts ==
  ReconEnded =>
    /\ rpc = "done"
    /\ \A i \in DOMAIN r_images : ~ImageRaises(r_images[i]) => i \in processed

\* C6: the destination holds what it held when save_coco was called, or
\* the complete new document, at every step; after a normal return it holds
\* the new document.
C6_AtomicDestination ==
  /\ fs[Dest] \in {s_prev, Some(s_doc)}
  /\ spc = "returned" => fs[Dest] = Some(s_doc)
  /\ spc \in {"makedirs", "open", "dump", "rename", "except", "raised"}
       => fs[Dest] = s_prev

\* A crash in the middle of json.dump: the temporary file is partial and
\* the destination still holds the old document.
C6_Witness ==
  /\ spc = "crashed"
  /\ s_prev = Some(OldContent)
  /\ fs[TempPath(Dest)] # NoFile
  /\ Len(fs[TempPath(Dest)][1]) > 0
  /\ Len(fs[TempPath(Dest)][1]) < Len(s_doc)
  /\ fs[Dest] = s_prev


\* ---- C26

\* The pixels of a mask that belong to an object.
Foreground(m) == {p \in DOMAIN m : m[p] > 0}

\* C26: a mask made of blocks of 10 pixels or more that do not touch,
\* converted to annotations and rebuilt from them, has an intersection over
\* union with the rebuilt mask of at least 0.95.
C26_RoundTripIoU ==
  tpc = "rebuilt" =>
    100 * Cardinality(Foreground(t_img) \cap Foreground(t_mask))
      >= 95 * Cardinality(Foreground(t_img) \cup Foreground(t_mask))

\* What the rebuilt mask does keep: every block is rebuilt inside itself,
\* with its value, and loses one pixel at most.
RebuiltInsideBlocks ==
  tpc = "rebuilt" =>
    /\ \A p \in Foreground(t_mask) : t_mask[p] = t_img[p]
    /\ Cardinality(Foreground(t_img) \ Foreground(t_mask)) <= Len(t_annotations)

====
